---- MODULE Spec2Model ----
(***************************************************************************)
(* Verification model of the budget-planning allocation engine             *)
(* (src/utils/data_manager.py, class DataManager) and of the dashboard     *)
(* code that drives it (src/app.py).                                       *)
(*                                                                         *)
(* The engine computes with Python floats, i.e. IEEE 754 binary64 with     *)
(* round-to-nearest-even.  The model computes with the same numbers: a     *)
(* float is a sign, a 53-bit significand and an exponent, the significand  *)
(* kept as a little-endian sequence of 15-bit limbs because the model      *)
(* checker's integers are 32 bits wide.  Every arithmetic operator         *)
(* computes the exact result and rounds it once, as the hardware does.     *)
(* Exponent overflow, subnormals and the sign of zero are not modelled:    *)
(* the magnitudes the model uses stay far inside the normal range.         *)
(***************************************************************************)
EXTENDS Integers, Sequences, FiniteSets, TLC

(***************************************************************************)
(* Evaluation order.  Python evaluates an expression once and names its    *)
(* value; Let1 and Let2 do the same: F is applied to the values of v and w.*)
(***************************************************************************)
Let1(v, F(_)) == CHOOSE r \in {F(x) : x \in {v}} : TRUE

Let2(v, w, F(_, _)) == CHOOSE r \in {F(x, y) : x \in {v}, y \in {w}} : TRUE

Max(S) == CHOOSE x \in S : \A y \in S : y <= x

(***************************************************************************)
(* Natural numbers of arbitrary size: little-endian limb sequences with no *)
(* leading (high) zero limb; zero is the empty sequence.  The operators    *)
(* whose name ends in V take values (names bound by Let1, Let2 or a        *)
(* quantifier); the others evaluate their arguments once.                  *)
(***************************************************************************)
LimbBits == 3 * 5
Base == 2 ^ LimbBits

Limb(a, i) == IF i <= Len(a) THEN a[i] ELSE 0

NatNormV(a) == SubSeq(a, 1, Max({0} \cup {i \in 1..Len(a) : a[i] # 0}))

NatNorm(a) == Let1(a, NatNormV)

\* For 0 <= n < 2^31.
NatOfInt(n) ==
  Let1(n, LAMBDA x : NatNorm(<<x % Base, (x \div Base) % Base, x \div (Base * Base)>>))

\* a + b + c for a carry c of 0 or 1.
NatAddV(a, b, c) ==
  LET n == Max({Len(a), Len(b)})
      carry[i \in 0..n] ==
        IF i = 0 THEN c ELSE (Limb(a, i) + Limb(b, i) + carry[i - 1]) \div Base
  IN  NatNorm([i \in 1..(n + 1) |-> (Limb(a, i) + Limb(b, i) + carry[i - 1]) % Base])

NatAddC(a, b, c) == Let2(a, b, LAMBDA x, y : NatAddV(x, y, c))

NatAdd(a, b) == NatAddC(a, b, 0)

\* a - b for a >= b.
NatSubV(a, b) ==
  LET borrow[i \in 0..Len(a)] ==
        IF i = 0 THEN 0
        ELSE IF a[i] - Limb(b, i) - borrow[i - 1] < 0 THEN 1 ELSE 0
  IN  NatNorm([i \in 1..Len(a) |-> (a[i] - Limb(b, i) - borrow[i - 1]) % Base])

NatSub(a, b) == Let2(a, b, NatSubV)

\* -1, 0 or 1 as a < b, a = b, a > b: the highest differing limb decides.
NatCmpV(a, b) ==
  IF Len(a) < Len(b) THEN -1
  ELSE IF Len(a) > Len(b) THEN 1
  ELSE LET differ == {i \in 1..Len(a) : a[i] # b[i]}
       IN  IF differ = {} THEN 0
           ELSE IF a[Max(differ)] < b[Max(differ)] THEN -1 ELSE 1

NatCmp(a, b) == Let2(a, b, NatCmpV)

\* a * k for a limb k.
NatMulSmallV(a, k) ==
  LET carry[i \in 0..Len(a)] ==
        IF i = 0 THEN 0 ELSE (a[i] * k + carry[i - 1]) \div Base
  IN  NatNorm([i \in 1..(Len(a) + 1) |-> (Limb(a, i) * k + carry[i - 1]) % Base])

NatMulSmall(a, k) == Let2(a, k, NatMulSmallV)

ZeroLimbs(n) == [i \in 1..n |-> 0]

\* Schoolbook multiplication: the partial products of a by the limbs of b.
NatMulV(a, b) ==
  LET acc[j \in 0..Len(b)] ==
        IF j = 0 THEN <<>>
        ELSE NatAdd(acc[j - 1], ZeroLimbs(j - 1) \o NatMulSmallV(a, b[j]))
  IN  acc[Len(b)]

NatMul(a, b) == Let2(a, b, NatMulV)

NatShlV(a, k) ==
  IF a = <<>> THEN a
  ELSE ZeroLimbs(k \div LimbBits) \o NatMulSmallV(a, 2 ^ (k % LimbBits))

NatShl(a, k) == Let2(a, k, NatShlV)

NatShrV(a, k) ==
  LET q == k \div LimbBits
      r == k % LimbBits
      n == Len(a) - q
      lo == 2 ^ r
      hi == 2 ^ (LimbBits - r)
  IN  IF n <= 0 THEN <<>>
      ELSE NatNorm([i \in 1..n |->
                      (a[q + i] \div lo)
                      + (IF i < n THEN (a[q + i + 1] % lo) * hi ELSE 0)])

NatShr(a, k) == Let2(a, k, NatShrV)

\* The number of bits of a limb.
LimbBitLen(x) == CHOOSE k \in 0..LimbBits : x < 2 ^ k /\ (k = 0 \/ 2 ^ (k - 1) <= x)

NatBitLen(a) ==
  IF a = <<>> THEN 0 ELSE LimbBits * (Len(a) - 1) + LimbBitLen(a[Len(a)])

NatBit(a, i) ==
  LET q == i \div LimbBits
  IN  IF q + 1 > Len(a) THEN 0 ELSE (a[q + 1] \div (2 ^ (i % LimbBits))) % 2

\* TRUE iff some bit of a below position k is set.
NatLowBits(a, k) ==
  LET q == k \div LimbBits
  IN  \/ \E i \in 1..q : i <= Len(a) /\ a[i] # 0
      \/ q + 1 <= Len(a) /\ a[q + 1] % (2 ^ (k % LimbBits)) # 0

(***************************************************************************)
(* Python floats (binary64).  A float is zero or (-1)^s * m * 2^e with     *)
(* 2^52 <= m < 2^53, so that equal numbers are equal records.              *)
(***************************************************************************)
Prec == 53

Zero == [s |-> 0, m |-> <<>>, e |-> 0]

IsZero(x) == x.m = <<>>

\* Round (-1)^s * m * 2^e (m any natural) to the nearest float, ties to even.
RoundV(s, m, e) ==
  LET n == NatBitLen(m)
      k == n - Prec
  IN  IF n = 0 THEN Zero
      ELSE IF k <= 0 THEN [s |-> s, m |-> NatShlV(m, -k), e |-> e + k]
      ELSE Let1(NatShrV(m, k), LAMBDA q :
             Let1(IF /\ NatBit(m, k - 1) = 1
                     /\ (NatLowBits(m, k - 1) \/ NatBit(q, 0) = 1)
                    THEN NatAddV(q, <<>>, 1) ELSE q,
                  LAMBDA q1 :
                    IF NatBitLen(q1) > Prec
                      THEN [s |-> s, m |-> NatShrV(q1, 1), e |-> e + k + 1]
                      ELSE [s |-> s, m |-> q1, e |-> e + k]))

Round(s, m, e) == Let1(m, LAMBDA v : RoundV(s, v, e))

\* For -2^31 < n < 2^31.
FromInt(n) == IF n < 0 THEN Round(1, NatOfInt(-n), 0) ELSE Round(0, NatOfInt(n), 0)

FNeg(x) == Let1(x, LAMBDA v : IF IsZero(v) THEN v ELSE [v EXCEPT !.s = 1 - v.s])

FAbs(x) == [x EXCEPT !.s = 0]

\* Comparison of magnitudes: -1, 0, 1.
MagCmpV(x, y) ==
  IF IsZero(x) THEN (IF IsZero(y) THEN 0 ELSE -1)
  ELSE IF IsZero(y) THEN 1
  ELSE IF x.e < y.e THEN -1
  ELSE IF x.e > y.e THEN 1
  ELSE NatCmpV(x.m, y.m)

FCmpV(x, y) ==
  IF x.s = 0 /\ y.s = 0 THEN MagCmpV(x, y)
  ELSE IF x.s = 1 /\ y.s = 1 THEN MagCmpV(y, x)
  ELSE IF x.s = 1 THEN -1 ELSE 1

FCmp(x, y) == Let2(x, y, FCmpV)

FLt(x, y) == FCmp(x, y) < 0
FGt(x, y) == FCmp(x, y) > 0
FEq(x, y) == FCmp(x, y) = 0

FAddV(x, y) ==
  IF IsZero(x) THEN y
  ELSE IF IsZero(y) THEN x
  ELSE LET e == IF x.e < y.e THEN x.e ELSE y.e
       IN  Let2(NatShlV(x.m, x.e - e), NatShlV(y.m, y.e - e), LAMBDA mx, my :
             IF x.s = y.s THEN Round(x.s, NatAddV(mx, my, 0), e)
             ELSE IF NatCmpV(mx, my) = 0 THEN Zero
             ELSE IF NatCmpV(mx, my) > 0 THEN Round(x.s, NatSubV(mx, my), e)
             ELSE Round(y.s, NatSubV(my, mx), e))

FAdd(x, y) == Let2(x, y, FAddV)

FSub(x, y) == FAdd(x, FNeg(y))

FMulV(x, y) ==
  IF IsZero(x) \/ IsZero(y) THEN Zero
  ELSE Round((x.s + y.s) % 2, NatMulV(x.m, y.m), x.e + y.e)

FMul(x, y) == Let2(x, y, FMulV)

\* One digit of schoolbook long division, for r < d * Base and a divisor d
\* whose top limb is at least Base / 2: the estimate from the top limbs is at
\* most 2 too large (Knuth, TAOCP 4.3.1 D).  The digit and the remainder.
DivStepV(r, d) ==
  LET n == Len(d)
      top == Limb(r, n + 1) * Base + Limb(r, n)
      est == top \div d[n]
      q == IF est > Base - 1 THEN Base - 1 ELSE est
  IN  Let1(NatMulSmallV(d, q), LAMBDA t0 :
        IF NatCmpV(t0, r) <= 0 THEN <<q, NatSubV(r, t0)>>
        ELSE Let1(NatSubV(t0, d), LAMBDA t1 :
               IF NatCmpV(t1, r) <= 0 THEN <<q - 1, NatSubV(r, t1)>>
               ELSE <<q - 2, NatSub(r, NatSubV(t1, d))>>))

\* k digits of r / d, most significant first, and the last remainder times
\* Base.
DivDigitsV(r, d, k) ==
  LET st[i \in 0..k] ==
        IF i = 0 THEN <<<<>>, r>>
        ELSE Let1(st[i - 1], LAMBDA p :
               Let1(DivStepV(p[2], d), LAMBDA t :
                 <<<<t[1]>> \o p[1], IF t[2] = <<>> THEN t[2] ELSE <<0>> \o t[2]>>))
  IN  st[k]

\* x / y for y # 0: the quotient to at least Prec + 2 bits and a sticky bit,
\* rounded once.
NormShift == LimbBits - (Prec % LimbBits)
QuotLimbs == 4

FDivV(x, y) ==
  IF IsZero(x) THEN Zero
  ELSE Let2(NatShlV(x.m, NormShift), NatShlV(y.m, NormShift), LAMBDA r, d :
         Let1(DivDigitsV(r, d, QuotLimbs + 1), LAMBDA qr :
           Let1(NatNormV(qr[1]), LAMBDA q :
             Round((x.s + y.s) % 2, NatAddV(q, q, IF qr[2] = <<>> THEN 0 ELSE 1),
                   x.e - y.e - QuotLimbs * LimbBits - 1))))

FDiv(x, y) == Let2(x, y, FDivV)

\* The float a decimal literal n/d denotes (n, d integers below 2^31).
Dec(n, d) == FDiv(FromInt(n), FromInt(d))

F0 == Zero
F1 == FromInt(1)
F100 == FromInt(100)
F0_001 == Dec(1, 1000)
F0_01 == Dec(1, 100)
F1_01 == Dec(101, 100)

(***************************************************************************)
(* Python dicts: the keys in insertion order and the value of each key.    *)
(* Exceptions: an outcome is [err |-> "none", val |-> v] or names the      *)
(* exception raised.                                                       *)
(***************************************************************************)
Range(seq) == {seq[i] : i \in 1..Len(seq)}

Dict(keys, val) == [keys |-> keys, val |-> val]

EmptyDict == Dict(<<>>, <<>>)

Has(d, k) == k \in Range(d.keys)

Ok(v) == [err |-> "none", val |-> v]

Raise(e) == [err |-> e, val |-> "raised"]

\* KeyError(k): the key that was looked up and not found.
RaiseKey(k) == [err |-> "KeyError", val |-> "raised", key |-> k]

IsOk(r) == r.err = "none"

None == "None"

\* An optional argument: absent (Python's None) or present.
Absent == <<>>

Present(v) == <<v>>

\* What a client sees of an outcome: the exception raised, or the value
\* returned in a field named after the operation.
Out(op, r) ==
  IF IsOk(r) THEN [f \in {"err", op} |-> IF f = "err" THEN "none" ELSE r.val]
  ELSE IF r.err = "KeyError" THEN [err |-> r.err, key |-> r.key]
  ELSE [err |-> r.err]

\* No outcome: no call is in progress.
NoRet == [err |-> "pending"]

(***************************************************************************)
(* DataManager.__init__: the reference data.  SourceData is the literal of *)
(* the constructor; the other data sets are reference data with the cases  *)
(* the engine's contract speaks of (a margin rate of 1 or 0, a variable    *)
(* cost of 0, a profit of exactly 0).  Division names are romanised.       *)
(***************************************************************************)
Division(margin_rate, fixed_cost, variable_cost) ==
  [margin_rate |-> margin_rate, fixed_cost |-> FromInt(fixed_cost),
   variable_cost |-> FromInt(variable_cost)]

SourceNames == <<"Career", "Inside", "Field", "SP", "Food">>

SourceData ==
  [departments |-> Dict(SourceNames,
     [n \in Range(SourceNames) |->
        CASE n = "Career" -> Division(Dec(6025, 10000), 25572000, 10430800)
          [] n = "Inside" -> Division(Dec(6483, 10000), 30516360, 7014000)
          [] n = "Field"  -> Division(Dec(4512, 10000), 4830000, 374600)
          [] n = "SP"     -> Division(Dec(5421, 10000), 15112000, 2985600)
          [] n = "Food"   -> Division(Dec(5478, 10000), 9862800, 1619400)]),
   headquarters_fixed_cost |-> FromInt(53013900),
   headquarters_variable_cost |-> FromInt(11649400)]

TwoNames == <<"A", "B">>

TwoDivisions(a, b, hq_fixed, hq_variable) ==
  [departments |-> Dict(TwoNames, [n \in Range(TwoNames) |-> IF n = "A" THEN a ELSE b]),
   headquarters_fixed_cost |-> FromInt(hq_fixed),
   headquarters_variable_cost |-> FromInt(hq_variable)]

\* A: the division of the specification's worked example; B has no variable cost.
ExampleData ==
  TwoDivisions(Division(Dec(5, 10), 1000, 500), Division(Dec(25, 100), 300, 0), 200, 100)

\* Both have a margin rate of 1; A has no variable cost.
UnitMarginData ==
  TwoDivisions(Division(FromInt(1), 1000, 0), Division(FromInt(1), 100, 50), 200, 100)

\* A has a margin rate of 0.
ZeroMarginData ==
  TwoDivisions(Division(F0, 100, 50), Division(Dec(4, 10), 700, 300), 200, 100)

\* Sales of 1000 and 400 before allocation: a division is at a profit of
\* exactly 0 when it takes none of the headquarters' costs (A) or all (B).
BreakEvenData ==
  TwoDivisions(Division(Dec(5, 10), 1000, 500), Division(Dec(25, 100), 300, 300), 200, 100)

ReferenceData == {SourceData, ExampleData, UnitMarginData, ZeroMarginData, BreakEvenData}

\* DataManager.__init__: equal shares, written 0.2 in the source for its five
\* divisions.
InitialRatios(names) ==
  Dict(names, [n \in Range(names) |->
                 [fixed |-> FDiv(F1, FromInt(Len(names))),
                  variable |-> FDiv(F1, FromInt(Len(names)))]])

VARIABLES
  departments,                  \* self.departments
  headquarters_fixed_cost,      \* self.headquarters_fixed_cost
  headquarters_variable_cost,   \* self.headquarters_variable_cost
  allocation_ratios,            \* self.allocation_ratios
  cost_transfers,               \* self.cost_transfers
  fixed_ratios,                 \* st.session_state.fixed_ratios
  variable_ratios,              \* st.session_state.variable_ratios
  call,                         \* the call in progress: [op, its arguments], or NoCall
  ret,                          \* its outcome, held until the caller takes it
  last_alloc,                   \* history: the outcome of the latest
                                \* calculate_allocated_costs since the latest
                                \* update_allocation_ratios, and how many
                                \* such calls there were (up to MaxCalls)
  users,                        \* AuthManager.users: the user store
  authenticated,                \* st.session_state.authenticated
  current_user,                 \* st.session_state.current_user
  login_attempts,               \* st.session_state.login_attempts
  lockout_until,                \* st.session_state.lockout_until
  now,                          \* datetime.now(), in minutes
  reader,                       \* a calculate_allocated_costs running beside
                                \* the writer: its position and its locals
  client                        \* the mapping an external component holds

engine == <<departments, headquarters_fixed_cost, headquarters_variable_cost,
            allocation_ratios, cost_transfers>>

\* The dashboard's own copy of the ratios; both are empty for an engine that
\* no dashboard session drives.
session == <<fixed_ratios, variable_ratios>>

\* The authentication state of the session, and the user store.
auth == <<users, authenticated, current_user, login_attempts, lockout_until, now>>

\* What other threads and components hold of the engine.
sharing == <<reader, client>>

vars == <<departments, headquarters_fixed_cost, headquarters_variable_cost,
          allocation_ratios, cost_transfers, fixed_ratios, variable_ratios,
          call, ret, last_alloc, users, authenticated, current_user,
          login_attempts, lockout_until, now, reader, client>>

NoCall == [op |-> None]

\* The history counts the calls of calculate_allocated_costs up to MaxCalls.
MaxCalls == 2

NoAlloc == [outcome |-> NoRet, calls |-> 0]

(***************************************************************************)
(* The engine's computations (DataManager).                                *)
(***************************************************************************)
dept_names == departments.keys

\* The division by margin_rate in place of 1 - margin_rate.
calculate_implied_sales_by_margin(dept_name) ==
  IF ~Has(departments, dept_name) THEN RaiseKey(dept_name)
  ELSE LET dept_data == departments.val[dept_name]
       IN  IF IsZero(dept_data.margin_rate) THEN Raise("ZeroDivisionError")
           ELSE Ok(FDiv(dept_data.variable_cost, dept_data.margin_rate))

\* A zero divisor guarded by a result of 0.
calculate_implied_sales_guarded(dept_name) ==
  IF ~Has(departments, dept_name) THEN RaiseKey(dept_name)
  ELSE LET dept_data == departments.val[dept_name]
       IN  Let1(FSub(F1, dept_data.margin_rate), LAMBDA den :
             IF IsZero(den) THEN Ok(F0)
             ELSE Ok(FDiv(dept_data.variable_cost, den)))

\* calculate_implied_sales: variable_cost / (1 - margin_rate).
calculate_implied_sales(dept_name) ==
  IF ~Has(departments, dept_name) THEN RaiseKey(dept_name)
  ELSE LET dept_data == departments.val[dept_name]
           margin_rate == dept_data.margin_rate
           variable_cost == dept_data.variable_cost
       IN  Let1(FSub(F1, margin_rate), LAMBDA den :
             IF IsZero(den) THEN Raise("ZeroDivisionError")
             ELSE Ok(FDiv(variable_cost, den)))

\* self.cost_transfers.get(key, 0); the key "<dept>_<kind>" is a pair here.
transfer(dept_name, kind) ==
  IF Has(cost_transfers, <<dept_name, kind>>)
    THEN cost_transfers.val[<<dept_name, kind>>] ELSE F0

\* The ratio taken for a percentage: the product divided by 100.
hq_fixed_allocated_percent(dept_name) ==
  FDiv(FMul(headquarters_fixed_cost, allocation_ratios.val[dept_name].fixed), F100)

\* The headquarters costs a division takes.
hq_fixed_allocated(dept_name) ==
  FMul(headquarters_fixed_cost, allocation_ratios.val[dept_name].fixed)

hq_variable_allocated(dept_name) ==
  FMul(headquarters_variable_cost, allocation_ratios.val[dept_name].variable)

\* The share of the variable cost in place of the margin rate.
new_margin_rate_variable_share(allocated_sales, total_variable) ==
  FDiv(total_variable, allocated_sales)

\* The margin rate after allocation.
new_margin_rate(allocated_sales, total_variable) ==
  FDiv(FSub(allocated_sales, total_variable), allocated_sales)

\* The loop's body from the transfers on (lines 99-128): the record of a
\* division, given its implied sales and the headquarters costs it takes.
allocated_totals(dept_name, original_implied_sales, hq_fixed, hq_variable) ==
  LET dept_data == departments.val[dept_name]
      dept_fixed == dept_data.fixed_cost
      dept_variable == dept_data.variable_cost
      transfer_fixed == transfer(dept_name, "fixed")
      transfer_variable == transfer(dept_name, "variable")
  IN  Let2(FAdd(original_implied_sales, hq_variable),
           FAdd(FAdd(dept_variable, hq_variable), transfer_variable),
           LAMBDA allocated_sales, total_variable :
        IF IsZero(allocated_sales) THEN Raise("ZeroDivisionError")
        ELSE Ok([original_margin_rate |-> dept_data.margin_rate,
                 margin_rate |-> new_margin_rate(allocated_sales, total_variable),
                 original_implied_sales |-> original_implied_sales,
                 implied_sales |-> allocated_sales,
                 sales_increase |-> hq_variable,
                 fixed_cost |-> FAdd(FAdd(dept_fixed, hq_fixed), transfer_fixed),
                 variable_cost |-> total_variable,
                 original_fixed |-> dept_fixed,
                 original_variable |-> dept_variable,
                 hq_fixed_allocated |-> hq_fixed,
                 hq_variable_allocated |-> hq_variable,
                 transfer_fixed |-> transfer_fixed,
                 transfer_variable |-> transfer_variable]))

\* The body of the loop of calculate_allocated_costs for one division.
allocated_dept(dept_name) ==
  Let1(calculate_implied_sales(dept_name), LAMBDA implied :
    IF ~IsOk(implied) THEN implied
    ELSE IF ~Has(allocation_ratios, dept_name) THEN RaiseKey(dept_name)
    ELSE
      Let2(hq_fixed_allocated(dept_name), hq_variable_allocated(dept_name),
           LAMBDA hq_fixed, hq_variable :
        allocated_totals(dept_name, implied.val, hq_fixed, hq_variable)))

\* The first exception among the outcomes out[1], out[2], ..., if any.
FirstRaised(out) ==
  LET bad == {i \in 1..Len(out) : ~IsOk(out[i])}
  IN  IF bad = {} THEN Ok(None) ELSE out[CHOOSE i \in bad : \A j \in bad : i <= j]

\* A loop over the dict `keys` that stores body(k) under k: the first key whose
\* body raises ends the loop with that exception.
ForEach(keys, body(_)) ==
  Let1([i \in 1..Len(keys) |-> body(keys[i])], LAMBDA out :
    IF ~IsOk(FirstRaised(out)) THEN FirstRaised(out)
    ELSE Ok(Dict(keys, [k \in Range(keys) |->
                          out[CHOOSE i \in 1..Len(keys) : keys[i] = k].val])))

\* The loop running over the ratio mapping, in its order.
calculate_allocated_costs_by_ratios ==
  ForEach(SelectSeq(allocation_ratios.keys, LAMBDA k : Has(departments, k)),
          allocated_dept)

calculate_allocated_costs == ForEach(dept_names, allocated_dept)

\* The break-even point of the division's own data, before allocation.
calculate_break_even_point_original(dept_name) ==
  Let1(calculate_allocated_costs, LAMBDA allocated_costs :
    IF ~IsOk(allocated_costs) THEN allocated_costs
    ELSE IF ~Has(allocated_costs.val, dept_name) THEN RaiseKey(dept_name)
    ELSE LET dept_data == departments.val[dept_name]
         IN  IF IsZero(dept_data.margin_rate) THEN Raise("ZeroDivisionError")
             ELSE Ok(FDiv(dept_data.fixed_cost, dept_data.margin_rate)))

\* A name that is no division read with a default (dict.get) of no cost at a
\* margin rate of 1.
calculate_break_even_point_default(dept_name) ==
  Let1(calculate_allocated_costs, LAMBDA allocated_costs :
    IF ~IsOk(allocated_costs) THEN allocated_costs
    ELSE IF ~Has(allocated_costs.val, dept_name) THEN Ok(FDiv(F0, F1))
    ELSE LET dept_data == allocated_costs.val.val[dept_name]
         IN  IF IsZero(dept_data.margin_rate) THEN Raise("ZeroDivisionError")
             ELSE Ok(FDiv(dept_data.fixed_cost, dept_data.margin_rate)))

\* The allocation computed for the requested division alone.
calculate_break_even_point_requested(dept_name) ==
  IF ~Has(departments, dept_name) THEN RaiseKey(dept_name)
  ELSE Let1(allocated_dept(dept_name), LAMBDA dept_data :
         IF ~IsOk(dept_data) THEN dept_data
         ELSE IF IsZero(dept_data.val.margin_rate) THEN Raise("ZeroDivisionError")
         ELSE Ok(FDiv(dept_data.val.fixed_cost, dept_data.val.margin_rate)))

\* calculate_break_even_point: fixed cost / margin rate after allocation.
calculate_break_even_point(dept_name) ==
  Let1(calculate_allocated_costs, LAMBDA allocated_costs :
    IF ~IsOk(allocated_costs) THEN allocated_costs
    ELSE IF ~Has(allocated_costs.val, dept_name) THEN RaiseKey(dept_name)
    ELSE LET dept_data == allocated_costs.val.val[dept_name]
         IN  IF IsZero(dept_data.margin_rate) THEN Raise("ZeroDivisionError")
             ELSE Ok(FDiv(dept_data.fixed_cost, dept_data.margin_rate)))

\* sum(...) of Python: 0 + v1 + v2 + ..., left to right.
FSumV(seq) ==
  LET acc[i \in 0..Len(seq)] == IF i = 0 THEN F0 ELSE FAdd(acc[i - 1], seq[i])
  IN  acc[Len(seq)]

FSum(seq) == Let1(seq, FSumV)

ratio_values(ratios, kind) ==
  [i \in 1..Len(ratios.keys) |->
     IF kind = "fixed" THEN ratios.val[ratios.keys[i]].fixed
     ELSE ratios.val[ratios.keys[i]].variable]

\* The variable ratios left unchecked.
validate_allocation_ratios_fixed_only ==
  FLt(FAbs(FSub(FSum(ratio_values(allocation_ratios, "fixed")), F1)), F0_001)

validate_allocation_ratios ==
  LET fixed_sum == FSum(ratio_values(allocation_ratios, "fixed"))
      variable_sum == FSum(ratio_values(allocation_ratios, "variable"))
  IN  /\ FLt(FAbs(FSub(fixed_sum, F1)), F0_001)
      /\ FLt(FAbs(FSub(variable_sum, F1)), F0_001)

\* The percentage of the variable cost's increase without its guard's 0: the
\* increase itself for a division without variable cost.
variable_increase_pct_raw(variable_increase, original_variable) ==
  IF FGt(original_variable, F0)
    THEN FMul(FDiv(variable_increase, original_variable), F100)
    ELSE variable_increase

\* variable_increase / original_variable * 100 if original_variable > 0 else 0
variable_increase_pct(variable_increase, original_variable) ==
  IF FGt(original_variable, F0)
    THEN FMul(FDiv(variable_increase, original_variable), F100)
    ELSE F0

\* sales_increase / original_implied_sales * 100 if original_implied_sales > 0
\* else 0
sales_increase_pct(sales_increase, original_implied_sales) ==
  IF FGt(original_implied_sales, F0)
    THEN FMul(FDiv(sales_increase, original_implied_sales), F100)
    ELSE F0

\* The percentage of the margin rate's change with a guard like the others'.
margin_rate_delta_pct_guarded(margin_rate_delta, original_margin_rate) ==
  IF IsZero(original_margin_rate) THEN Ok(F0)
  ELSE Ok(FMul(FDiv(margin_rate_delta, original_margin_rate), F100))

\* (allocated margin rate - original_margin_rate) / original_margin_rate * 100
margin_rate_delta_pct(margin_rate_delta, original_margin_rate) ==
  IF IsZero(original_margin_rate) THEN Raise("ZeroDivisionError")
  ELSE Ok(FMul(FDiv(margin_rate_delta, original_margin_rate), F100))

\* The body of the loop of get_allocation_impact_analysis for one division
\* (the keys of the source are Japanese: before, after and impact here).
impact_dept(dept_name) ==
  LET dept_data == departments.val[dept_name]
      original_fixed == dept_data.fixed_cost
      original_variable == dept_data.variable_cost
      original_margin_rate == dept_data.margin_rate
  IN  Let2(calculate_implied_sales(dept_name), calculate_allocated_costs,
           LAMBDA implied, all :
        IF ~IsOk(implied) THEN implied
        ELSE IF ~IsOk(all) THEN all
        ELSE
          LET original_implied_sales == implied.val
              allocated == all.val.val[dept_name]
          IN  Let2(FSub(allocated.variable_cost, original_variable),
                   FSub(allocated.margin_rate, original_margin_rate),
                   LAMBDA variable_increase, margin_rate_delta :
                Let1(margin_rate_delta_pct(margin_rate_delta, original_margin_rate),
                     LAMBDA delta_pct :
                  IF ~IsOk(delta_pct) THEN delta_pct
                  ELSE
                    Ok([before |-> [fixed_cost |-> original_fixed,
                                    variable_cost |-> original_variable,
                                    margin_rate |-> original_margin_rate,
                                    implied_sales |-> original_implied_sales],
                        after |-> [fixed_cost |-> allocated.fixed_cost,
                                   variable_cost |-> allocated.variable_cost,
                                   margin_rate |-> allocated.margin_rate,
                                   implied_sales |-> allocated.implied_sales,
                                   sales_increase |-> allocated.sales_increase,
                                   hq_variable_allocated |-> allocated.hq_variable_allocated],
                        impact |->
                          [fixed_increase |-> FSub(allocated.fixed_cost, original_fixed),
                           variable_increase |-> variable_increase,
                           variable_increase_pct |->
                             variable_increase_pct(variable_increase, original_variable),
                           sales_increase |-> allocated.sales_increase,
                           sales_increase_pct |->
                             sales_increase_pct(allocated.sales_increase,
                                                original_implied_sales),
                           margin_rate_delta |-> margin_rate_delta,
                           margin_rate_delta_pct |-> delta_pct.val]]))))

get_allocation_impact_analysis == ForEach(dept_names, impact_dept)

\* A loop that appends body(k) to a list (the rows of a DataFrame).
ForEachRow(keys, body(_)) ==
  Let1([i \in 1..Len(keys) |-> body(keys[i])], LAMBDA out :
    IF ~IsOk(FirstRaised(out)) THEN FirstRaised(out)
    ELSE Ok([i \in 1..Len(keys) |-> out[i].val]))

\* get_summary_data: a row per division.  A row holds the numbers the source
\* formats into its strings; the formatting itself is not modelled.
get_summary_data ==
  Let1(calculate_allocated_costs, LAMBDA allocated_costs :
    IF ~IsOk(allocated_costs) THEN allocated_costs
    ELSE
      LET row(dept_name) ==
            LET costs == allocated_costs.val.val[dept_name]
            IN  Let1(calculate_break_even_point(dept_name), LAMBDA bep :
                  IF ~IsOk(bep) THEN bep
                  ELSE Ok([dept |-> dept_name,
                           original_margin_rate |-> costs.original_margin_rate,
                           margin_rate |-> costs.margin_rate,
                           margin_rate_delta |->
                             FSub(costs.margin_rate, costs.original_margin_rate),
                           fixed_cost |-> costs.fixed_cost,
                           variable_cost |-> costs.variable_cost,
                           bep |-> bep.val]))
      IN  ForEachRow(allocated_costs.val.keys, row))

\* The label of a profit of exactly 0 taken for a surplus.
profit_status_nonnegative(profit) ==
  IF ~FLt(profit, F0) THEN "surplus" ELSE "deficit"

\* The status label (surplus, deficit, break-even in the source's Japanese).
profit_status(profit) ==
  IF FGt(profit, F0) THEN "surplus" ELSE IF FLt(profit, F0) THEN "deficit" ELSE "break-even"

\* A target chosen by its truth value: a target of 0 counts as none.
target_or_allocated_if_truthy(costs, target_sales_increase) ==
  IF target_sales_increase # Absent /\ ~IsZero(target_sales_increase[1])
    THEN target_sales_increase[1]
    ELSE costs.sales_increase

\* The sales increase of a division: the allocated one, replaced by the
\* target if target_sales_increase is not None.
target_or_allocated(costs, target_sales_increase) ==
  IF target_sales_increase # Absent
    THEN target_sales_increase[1]
    ELSE costs.sales_increase

\* The contribution and increase rates: the profit contribution over the
\* current operating profit, over its absolute value in deficit, 0 at 0.
contribution_rate(profit_contribution, current_operating_profit) ==
  IF FGt(current_operating_profit, F0)
    THEN FDiv(profit_contribution, current_operating_profit)
  ELSE IF FLt(current_operating_profit, F0)
    THEN FDiv(profit_contribution, FAbs(current_operating_profit))
  ELSE F0

\* calculate_operating_profit_contribution(target_sales_increase = None).
calculate_operating_profit_contribution(target_sales_increase) ==
  Let1(calculate_allocated_costs, LAMBDA allocated_costs :
    IF ~IsOk(allocated_costs) THEN allocated_costs
    ELSE
      LET body(dept_name) ==
            LET costs == allocated_costs.val.val[dept_name]
                sales_increase == target_or_allocated(costs, target_sales_increase)
            IN  Let2(FMul(sales_increase, costs.margin_rate),
                     FSub(costs.implied_sales, costs.fixed_cost),
                     LAMBDA profit_contribution, current_operating_profit :
                  Let2(contribution_rate(profit_contribution, current_operating_profit),
                       calculate_break_even_point(dept_name),
                       LAMBDA rate, break_even_point :
                    IF ~IsOk(break_even_point) THEN break_even_point
                    ELSE Ok([sales_increase |-> sales_increase,
                             margin_rate |-> costs.margin_rate,
                             profit_contribution |-> profit_contribution,
                             contribution_rate |-> rate,
                             profit_increase_rate |-> rate,
                             break_even_point |-> break_even_point.val,
                             status |-> profit_status(current_operating_profit)])))
      IN  ForEach(allocated_costs.val.keys, body))

\* get_operating_profit_contribution_summary: a row per division, holding the
\* numbers the source formats and whether it labels the rates a loss
\* improvement.
get_operating_profit_contribution_summary(target_sales_increase) ==
  Let1(calculate_operating_profit_contribution(target_sales_increase),
       LAMBDA contribution_data :
    IF ~IsOk(contribution_data) THEN contribution_data
    ELSE
      LET row(dept_name) ==
            LET data == contribution_data.val.val[dept_name]
            IN  Ok([dept |-> dept_name,
                    sales_increase |-> data.sales_increase,
                    margin_rate |-> data.margin_rate,
                    profit_contribution |-> data.profit_contribution,
                    status |-> data.status,
                    loss_improvement |-> data.status = "deficit",
                    contribution_rate |-> data.contribution_rate,
                    profit_increase_rate |-> data.profit_increase_rate,
                    break_even_point |-> data.break_even_point])
      IN  ForEachRow(contribution_data.val.keys, row))

\* The rate of a deficit's change over the deficit itself, not over its
\* absolute value.
profit_increase_rate_signed(current_profit, increased_profit) ==
  IF FGt(current_profit, F0)
    THEN FDiv(FSub(increased_profit, current_profit), current_profit)
  ELSE IF FLt(current_profit, F0)
    THEN IF FGt(increased_profit, current_profit)
           THEN FDiv(FSub(increased_profit, current_profit), current_profit)
           ELSE F0
  ELSE F0

\* The rate at which the profit grows with 1% more sales: in deficit, the
\* improvement over the deficit's absolute value, 0 without improvement.
profit_increase_rate(current_profit, increased_profit) ==
  IF FGt(current_profit, F0)
    THEN FDiv(FSub(increased_profit, current_profit), current_profit)
  ELSE IF FLt(current_profit, F0)
    THEN IF FGt(increased_profit, current_profit)
           THEN FDiv(FSub(increased_profit, current_profit), FAbs(current_profit))
           ELSE F0
  ELSE F0

\* calculate_sales_profit_elasticity: the profit's response to 1% more sales.
calculate_sales_profit_elasticity ==
  Let1(calculate_allocated_costs, LAMBDA allocated_costs :
    IF ~IsOk(allocated_costs) THEN allocated_costs
    ELSE
      LET body(dept_name) ==
            LET costs == allocated_costs.val.val[dept_name]
            IN  Let2(FSub(costs.implied_sales, costs.fixed_cost),
                     FSub(FMul(costs.implied_sales, F1_01), costs.fixed_cost),
                     LAMBDA current_profit, increased_profit :
                  Let1(profit_increase_rate(current_profit, increased_profit),
                       LAMBDA rate :
                    Ok([profit_increase_rate |-> rate,
                        elasticity |-> FDiv(rate, F0_01),
                        margin_rate |-> costs.margin_rate,
                        status |-> profit_status(current_profit)])))
      IN  ForEach(allocated_costs.val.keys, body))

(***************************************************************************)
(* The inputs of the model.                                                *)
(***************************************************************************)
\* Ratio values k / GridSteps for k = 0 .. GridSteps + 1: 0, ..., 1 and one
\* value above 1.
GridSteps == 1

Grid == {FDiv(FromInt(k), FromInt(GridSteps)) : k \in 0..(GridSteps + 1)}

Pair(f, v) == [fixed |-> f, variable |-> v]

\* The mapping that gives `head` to the first division and `tail` to the others.
HeadTail(names, head, tail) ==
  Dict(names, [n \in Range(names) |-> IF n = names[1] THEN head ELSE tail])

GridRatios(names) ==
  {HeadTail(names, Pair(a, a), Pair(b, b)) : a, b \in Grid}
  \cup {HeadTail(names, Pair(a, b), Pair(b, a)) : a, b \in Grid}

\* Rows <<head, tail>> in thousandths for two divisions: sums of 1.001 and
\* 0.999, a sum that is 1.0 in floating point, a negative ratio for either.
PerMilleRows(names) ==
  IF Len(names) = Len(TwoNames)
    THEN {<<500, 501>>, <<500, 499>>, <<21, 979>>, <<-500, 1500>>, <<1500, -500>>}
    ELSE {}

PerMilleRatios(names) ==
  {HeadTail(names, Pair(Dec(r[1], 1000), Dec(r[1], 1000)),
                   Pair(Dec(r[2], 1000), Dec(r[2], 1000))) : r \in PerMilleRows(names)}

\* For three divisions or more: 0.28 and 0.68 for the first two, what is left
\* of 1 for the third (1 - 0.28 - 0.68 is exact in double precision, so these
\* ratios sum to exactly 1 in real and in floating-point arithmetic), 0 for
\* the others.
RemainderRatios(names) ==
  IF Len(names) < 3 THEN {}
  ELSE Let2(Dec(28, 100), Dec(68, 100), LAMBDA a, b :
         Let1(FSub(FSub(F1, a), b), LAMBDA c :
           {Dict(names, [n \in Range(names) |->
                           IF n = names[1] THEN Pair(a, a)
                           ELSE IF n = names[2] THEN Pair(b, b)
                           ELSE IF n = names[3] THEN Pair(c, c)
                           ELSE Pair(F0, F0)])}))

\* A mapping without its last key, with a key that is no division, and with
\* its keys in reverse order.
OmitLast(d) ==
  LET keys == SubSeq(d.keys, 1, Len(d.keys) - 1)
  IN  Dict(keys, [k \in Range(keys) |-> d.val[k]])

Unknown == "X"

WithExtra(d) ==
  Dict(d.keys \o <<Unknown>>,
       [k \in Range(d.keys) \cup {Unknown} |->
          IF k = Unknown THEN Pair(F0, F0) ELSE d.val[k]])

Reversed(d) ==
  Dict([i \in 1..Len(d.keys) |-> d.keys[Len(d.keys) + 1 - i]], d.val)

\* The mappings a client passes to update_allocation_ratios: for two
\* divisions the whole grid, a mapping with an extra key and one in reverse
\* order; for more, the first division taking everything and the ratios of
\* RemainderRatios.
RatioInputs(names) ==
  (IF Len(names) = Len(TwoNames)
     THEN GridRatios(names)
          \cup {WithExtra(InitialRatios(names)),
                Reversed(HeadTail(names, Pair(F1, F0), Pair(F0, F1)))}
     ELSE {HeadTail(names, Pair(F1, F1), Pair(F0, F0))})
  \cup PerMilleRatios(names)
  \cup RemainderRatios(names)
  \cup {OmitLast(InitialRatios(names))}

\* The first two divisions, and a name that is no division.
NameInputs == {dept_names[1], dept_names[2], Unknown}

TargetInputs == {Absent, Present(F0), Present(FromInt(1000))}

\* The dashboard's user edits the number inputs of the first MaxEdited
\* divisions, typing one of Percents.
MaxEdited == 1

Percents == {F0}

NoEdit == [dept_name |-> None, kind |-> None, percent |-> F0]

Edits ==
  {NoEdit} \cup
  {[dept_name |-> dept_names[i], kind |-> k, percent |-> p] :
     i \in 1..MaxEdited, k \in {"fixed", "variable"}, p \in Percents}

(***************************************************************************)
(* The dashboard's sidebar (app.py).  A rerun of the script reads every    *)
(* number input: the one the user edited returns the percentage typed, the *)
(* others their value argument, current_ratio * 100.                       *)
(***************************************************************************)
\* The session's ratios of one kind at start-up, copied from the engine.
session_ratios(kind) ==
  Dict(dept_names, [n \in Range(dept_names) |->
                      IF kind = "fixed" THEN allocation_ratios.val[n].fixed
                      ELSE allocation_ratios.val[n].variable])

\* The loop over the number inputs of one kind: the session's ratios after it.
number_inputs(ratios, kind, edit) ==
  Dict(ratios.keys,
       [dept_name \in Range(ratios.keys) |->
          LET current_ratio == ratios.val[dept_name]
              number_input == IF edit.dept_name = dept_name /\ edit.kind = kind
                                THEN edit.percent ELSE FMul(current_ratio, F100)
              ratio == FDiv(number_input, F100)
          IN  IF FGt(FAbs(FSub(ratio, current_ratio)), F0_001)
                THEN ratio ELSE current_ratio])

\* st.success rather than st.warning under the inputs of one kind.
total_ok(ratios) ==
  FLt(FAbs(FSub(FSum([i \in 1..Len(ratios.keys) |-> ratios.val[ratios.keys[i]]]), F1)),
      F0_001)

\* The mapping the sidebar builds for update_allocation_ratios.
new_ratios_of(fixed, variable) ==
  Dict(dept_names, [n \in Range(dept_names) |-> Pair(fixed.val[n], variable.val[n])])

(***************************************************************************)
(* AuthManager (utils/auth_manager.py): the user store and the session's   *)
(* authentication state.  A password hash is the pair of the algorithm and *)
(* the password: equal for equal passwords only.  Time is in minutes.      *)
(***************************************************************************)
_hash_password(password) == <<"sha256", password>>

_verify_password(password, password_hash) == _hash_password(password) = password_hash

\* len(password) < 6, for the passwords of the model.
TooShort(password) == password \in {"", "abc"}

User(password, role, name) ==
  [password_hash |-> _hash_password(password), role |-> role, name |-> name]

\* _get_default_users without environment variables: the administrator.
DefaultUsers == Dict(<<"admin">>, [u \in {"admin"} |-> User("admin123", "admin", "Kanrisha")])

\* The lockout: 5 failed attempts, 5 minutes.
MaxAttempts == 5

LockoutMinutes == 5

\* The clock of the model stops at MaxNow.
MaxNow == 5

\* is_locked_out's result, written without its effect on the session.
is_locked_out_never == FALSE

is_locked_out == lockout_until # Absent /\ now < lockout_until[1]

\* The lockout period is over: is_locked_out clears the lockout and the count.
lockout_expired == lockout_until # Absent /\ ~(now < lockout_until[1])

\* The count kept when the lockout period is over.
attempts_after_check_kept == login_attempts

attempts_after_check == IF lockout_expired THEN 0 ELSE login_attempts

lockout_after_check == IF lockout_expired THEN Absent ELSE lockout_until

\* _increment_login_attempts: the lockout it leaves for the new count.
lockout_after_increment(attempts, lockout) ==
  IF attempts >= MaxAttempts THEN Present(now + LockoutMinutes) ELSE lockout

\* Whether login finds the user and the password right.
credentials_ok(username, password) ==
  /\ Has(users, username)
  /\ _verify_password(password, users.val[username].password_hash)

\* st.session_state.current_user after a successful login.
logged_in_user(username) ==
  [username |-> username, name |-> users.val[username].name,
   role |-> users.val[username].role]

\* login: what it leaves in st.session_state.
login(username, password) ==
  IF is_locked_out
    THEN UNCHANGED <<authenticated, current_user, login_attempts, lockout_until>>
  ELSE IF ~credentials_ok(username, password)
    THEN /\ login_attempts' = attempts_after_check + 1
         /\ lockout_until' = lockout_after_increment(attempts_after_check + 1,
                                                     lockout_after_check)
         /\ UNCHANGED <<authenticated, current_user>>
  ELSE /\ authenticated' = TRUE
       /\ current_user' = Present(logged_in_user(username))
       /\ login_attempts' = 0
       /\ lockout_until' = Absent

\* login's first result.
login_succeeds(username, password) ==
  ~is_locked_out /\ credentials_ok(username, password)

\* logout forgetting the flag only.
logout_flag_only ==
  /\ authenticated' = FALSE
  /\ UNCHANGED <<current_user, login_attempts, lockout_until>>

logout ==
  /\ authenticated' = FALSE
  /\ current_user' = Absent
  /\ UNCHANGED <<login_attempts, lockout_until>>

\* The gate passing every session.
is_authenticated_always == TRUE

is_authenticated == authenticated

get_current_user == current_user

\* add_user: the user store it leaves (saved to the users file).
add_user(username, password, name, role) ==
  IF Has(users, username) \/ TooShort(password) THEN users
  ELSE Dict(users.keys \o <<username>>,
            [u \in Range(users.keys) \cup {username} |->
               IF u = username THEN User(password, role, name) ELSE users.val[u]])

\* change_password: the user store it leaves.
change_password(username, old_password, new_password) ==
  IF \/ ~Has(users, username)
     \/ ~_verify_password(old_password, users.val[username].password_hash)
     \/ TooShort(new_password)
    THEN users
  ELSE [users EXCEPT !.val[username].password_hash = _hash_password(new_password)]

\* show_user_management_page goes on for an administrator only.
may_manage_users ==
  current_user # Absent /\ current_user[1].role = "admin"

\* No reader beside the writer; no mapping held outside the engine.
NoReader == [pc |-> "idle"]

NoClient == [holds |-> None, keys |-> <<>>, does |-> None, changes |-> 0]

(***************************************************************************)
(* The operations, as a client calls them: an operation runs to its end    *)
(* in one step and leaves its outcome in ret; Return hands it over.        *)
(***************************************************************************)
Idle == call.op = None

\* A dashboard session drives the engine.
InSession == fixed_ratios.keys # <<>>

Init ==
  /\ \E d \in ReferenceData :
       /\ departments = d.departments
       /\ headquarters_fixed_cost = d.headquarters_fixed_cost
       /\ headquarters_variable_cost = d.headquarters_variable_cost
  /\ allocation_ratios = InitialRatios(departments.keys)
  /\ cost_transfers = EmptyDict
  /\ \E dashboard \in BOOLEAN :
       /\ fixed_ratios = IF dashboard THEN session_ratios("fixed") ELSE EmptyDict
       /\ variable_ratios = IF dashboard THEN session_ratios("variable") ELSE EmptyDict
  /\ call = NoCall
  /\ ret = NoRet
  /\ last_alloc = NoAlloc
  /\ users = DefaultUsers
  /\ authenticated = InSession
  /\ current_user = IF InSession THEN Present(logged_in_user("admin")) ELSE Absent
  /\ login_attempts = 0
  /\ lockout_until = Absent
  /\ now = 0
  /\ reader = NoReader
  /\ client = NoClient

\* A query: it leaves the engine as it is.
Query(c, outcome) ==
  /\ Idle
  /\ call' = c
  /\ ret' = Out(c.op, outcome)
  /\ UNCHANGED <<engine, session, last_alloc, auth, sharing>>

GetDepartmentData == Query([op |-> "get_department_data"], Ok(departments))

GetHeadquartersCosts ==
  Query([op |-> "get_headquarters_costs"],
        Ok(<<headquarters_fixed_cost, headquarters_variable_cost>>))

GetAllocationRatios == Query([op |-> "get_allocation_ratios"], Ok(allocation_ratios))

\* update_allocation_ratios as self.allocation_ratios.update(new_ratios): the
\* entries of the old mapping that new_ratios omits survive.
UpdateAllocationRatiosMerging ==
  /\ Idle
  /\ ~InSession
  /\ \E new_ratios \in RatioInputs(dept_names) :
       /\ call' = [op |-> "update_allocation_ratios", new_ratios |-> new_ratios]
       /\ allocation_ratios' =
            LET added == SelectSeq(new_ratios.keys,
                                   LAMBDA k : ~Has(allocation_ratios, k))
                keys == allocation_ratios.keys \o added
            IN  Dict(keys, [k \in Range(keys) |->
                              IF Has(new_ratios, k) THEN new_ratios.val[k]
                              ELSE allocation_ratios.val[k]])
  /\ ret' = Out("update_allocation_ratios", Ok(None))
  /\ last_alloc' = NoAlloc
  /\ UNCHANGED <<departments, headquarters_fixed_cost, headquarters_variable_cost,
                 cost_transfers, session, auth, sharing>>

\* update_allocation_ratios called by a client other than the dashboard.
UpdateAllocationRatios ==
  /\ Idle
  /\ ~InSession
  /\ \E new_ratios \in RatioInputs(dept_names) :
       /\ call' = [op |-> "update_allocation_ratios", new_ratios |-> new_ratios]
       /\ allocation_ratios' = new_ratios
  /\ ret' = Out("update_allocation_ratios", Ok(None))
  /\ last_alloc' = NoAlloc
  /\ UNCHANGED <<departments, headquarters_fixed_cost, headquarters_variable_cost,
                 cost_transfers, session, auth, sharing>>

\* The sidebar updating the engine only when both banners are green.
SidebarValidated ==
  /\ Idle
  /\ InSession
  /\ \E edit \in Edits :
       /\ call' = [op |-> "sidebar", edit |-> edit]
       /\ fixed_ratios' = number_inputs(fixed_ratios, "fixed", edit)
       /\ variable_ratios' = number_inputs(variable_ratios, "variable", edit)
  /\ allocation_ratios' =
       IF total_ok(fixed_ratios') /\ total_ok(variable_ratios')
         THEN new_ratios_of(fixed_ratios', variable_ratios')
         ELSE allocation_ratios
  /\ ret' = Out("sidebar", Ok([fixed_ok |-> total_ok(fixed_ratios'),
                               variable_ok |-> total_ok(variable_ratios')]))
  /\ last_alloc' = NoAlloc
  /\ UNCHANGED <<departments, headquarters_fixed_cost, headquarters_variable_cost,
                 cost_transfers, auth, sharing>>

\* A rerun of the dashboard's script up to the reset button: the number
\* inputs, the two banners, and the update of the engine.
Sidebar ==
  /\ Idle
  /\ InSession
  /\ \E edit \in Edits :
       /\ call' = [op |-> "sidebar", edit |-> edit]
       /\ fixed_ratios' = number_inputs(fixed_ratios, "fixed", edit)
       /\ variable_ratios' = number_inputs(variable_ratios, "variable", edit)
  /\ allocation_ratios' = new_ratios_of(fixed_ratios', variable_ratios')
  /\ ret' = Out("sidebar", Ok([fixed_ok |-> total_ok(fixed_ratios'),
                               variable_ok |-> total_ok(variable_ratios')]))
  /\ last_alloc' = NoAlloc
  /\ UNCHANGED <<departments, headquarters_fixed_cost, headquarters_variable_cost,
                 cost_transfers, auth, sharing>>

\* The reset button resetting the engine alone, the session left as it is.
ResetButtonEngineOnly ==
  /\ Idle
  /\ InSession
  /\ call' = [op |-> "reset", fixed_ratios |-> fixed_ratios,
                              variable_ratios |-> variable_ratios]
  /\ LET equal_ratio == FDiv(F1, FromInt(Len(dept_names)))
         reset_ratios == Dict(dept_names, [n \in Range(dept_names) |->
                                             Pair(equal_ratio, equal_ratio)])
     IN  allocation_ratios' = reset_ratios
  /\ ret' = Out("reset", Ok(None))
  /\ last_alloc' = NoAlloc
  /\ UNCHANGED <<departments, headquarters_fixed_cost, headquarters_variable_cost,
                 cost_transfers, session, auth, sharing>>

\* The rerun in which the reset button is pressed: the sidebar as above with
\* no edit, then equal shares for the engine and for the session.  The call
\* records the session's ratios the button was pressed on.
ResetButton ==
  /\ Idle
  /\ InSession
  /\ call' = [op |-> "reset", fixed_ratios |-> fixed_ratios,
                              variable_ratios |-> variable_ratios]
  /\ LET equal_ratio == FDiv(F1, FromInt(Len(dept_names)))
         reset_ratios == Dict(dept_names, [n \in Range(dept_names) |->
                                             Pair(equal_ratio, equal_ratio)])
         equal == Dict(dept_names, [n \in Range(dept_names) |-> equal_ratio])
     IN  /\ allocation_ratios' = reset_ratios
         /\ fixed_ratios' = equal
         /\ variable_ratios' = equal
  /\ ret' = Out("reset", Ok(None))
  /\ last_alloc' = NoAlloc
  /\ UNCHANGED <<departments, headquarters_fixed_cost, headquarters_variable_cost,
                 cost_transfers, auth, sharing>>

CalculateImpliedSales ==
  \E dept_name \in NameInputs :
    Query([op |-> "calculate_implied_sales", dept_name |-> dept_name],
          calculate_implied_sales(dept_name))

\* calculate_allocated_costs writing each division's totals back into
\* self.departments (dept_data updated in place).
CalculateAllocatedCostsInPlace ==
  /\ Idle
  /\ call' = [op |-> "calculate_allocated_costs"]
  /\ ret' = Out("calculate_allocated_costs", calculate_allocated_costs)
  /\ departments' =
       IF ret'.err # "none" THEN departments
       ELSE Dict(dept_names,
                 [n \in Range(dept_names) |->
                    LET costs == ret'.calculate_allocated_costs.val[n]
                    IN  [departments.val[n] EXCEPT
                           !.fixed_cost = costs.fixed_cost,
                           !.variable_cost = costs.variable_cost]])
  /\ last_alloc' = [outcome |-> ret',
                    calls |-> IF last_alloc.calls < MaxCalls
                                THEN last_alloc.calls + 1 ELSE MaxCalls]
  /\ UNCHANGED <<headquarters_fixed_cost, headquarters_variable_cost,
                 allocation_ratios, cost_transfers, session, auth, sharing>>

CalculateAllocatedCosts ==
  /\ Idle
  /\ call' = [op |-> "calculate_allocated_costs"]
  /\ ret' = Out("calculate_allocated_costs", calculate_allocated_costs)
  /\ last_alloc' = [outcome |-> ret',
                    calls |-> IF last_alloc.calls < MaxCalls
                                THEN last_alloc.calls + 1 ELSE MaxCalls]
  /\ UNCHANGED <<engine, session, auth, sharing>>

\* calculate_break_even_point entering a name it does not know in the ratio
\* mapping (setdefault) before it fails.
CalculateBreakEvenPointRegistering ==
  /\ Idle
  /\ \E dept_name \in NameInputs :
       /\ call' = [op |-> "calculate_break_even_point", dept_name |-> dept_name]
       /\ ret' = Out("calculate_break_even_point", calculate_break_even_point(dept_name))
       /\ allocation_ratios' =
            IF Has(allocation_ratios, dept_name) THEN allocation_ratios
            ELSE Dict(allocation_ratios.keys \o <<dept_name>>,
                      [k \in Range(allocation_ratios.keys) \cup {dept_name} |->
                         IF k = dept_name THEN Pair(F0, F0)
                         ELSE allocation_ratios.val[k]])
  /\ UNCHANGED <<departments, headquarters_fixed_cost, headquarters_variable_cost,
                 cost_transfers, session, last_alloc, auth, sharing>>

CalculateBreakEvenPoint ==
  \E dept_name \in NameInputs :
    Query([op |-> "calculate_break_even_point", dept_name |-> dept_name],
          calculate_break_even_point(dept_name))

\* validate_allocation_ratios putting equal shares in place of ratios it
\* finds invalid.
ValidateAllocationRatiosRepairing ==
  /\ Idle
  /\ call' = [op |-> "validate_allocation_ratios"]
  /\ ret' = Out("validate_allocation_ratios", Ok(validate_allocation_ratios))
  /\ allocation_ratios' =
       IF ret'.validate_allocation_ratios THEN allocation_ratios
       ELSE InitialRatios(dept_names)
  /\ UNCHANGED <<departments, headquarters_fixed_cost, headquarters_variable_cost,
                 cost_transfers, session, last_alloc, auth, sharing>>

ValidateAllocationRatios ==
  Query([op |-> "validate_allocation_ratios"], Ok(validate_allocation_ratios))

GetAllocationImpactAnalysis ==
  Query([op |-> "get_allocation_impact_analysis"], get_allocation_impact_analysis)

GetSummaryData == Query([op |-> "get_summary_data"], get_summary_data)

CalculateOperatingProfitContribution ==
  \E target \in TargetInputs :
    Query([op |-> "calculate_operating_profit_contribution",
           target_sales_increase |-> target],
          calculate_operating_profit_contribution(target))

GetOperatingProfitContributionSummary ==
  \E target \in {Absent} :
    Query([op |-> "get_operating_profit_contribution_summary",
           target_sales_increase |-> target],
          get_operating_profit_contribution_summary(target))

CalculateSalesProfitElasticity ==
  Query([op |-> "calculate_sales_profit_elasticity"], calculate_sales_profit_elasticity)

\* The caller takes the outcome.
Return ==
  /\ ~Idle
  /\ call' = NoCall
  /\ ret' = NoRet
  /\ UNCHANGED <<engine, session, last_alloc, auth, sharing>>

Next ==
  \/ GetDepartmentData
  \/ GetHeadquartersCosts
  \/ GetAllocationRatios
  \/ UpdateAllocationRatios
  \/ Sidebar
  \/ ResetButton
  \/ CalculateImpliedSales
  \/ CalculateAllocatedCosts
  \/ CalculateBreakEvenPoint
  \/ ValidateAllocationRatios
  \/ GetAllocationImpactAnalysis
  \/ GetSummaryData
  \/ CalculateOperatingProfitContribution
  \/ GetOperatingProfitContributionSummary
  \/ CalculateSalesProfitElasticity
  \/ Return

Spec == Init /\ [][Next]_vars

(***************************************************************************)
(* autoAdjustRatios(ratios, target = 1.0), the utility the specification   *)
(* describes for the interactive editing of ratios.  The source holds no   *)
(* code for it: it is modelled from the specification's section 4, in the  *)
(* double precision of the engine.  The specification stops the traversal  *)
(* "when remaining is about 0" without giving the tolerance: the model     *)
(* takes it as an input, exactly 0 or the 0.001 of the validation.         *)
(***************************************************************************)
ThreeNames == <<"A", "B", "C">>

\* min(a, b)
FMin(a, b) == IF FLt(b, a) THEN b ELSE a

\* The divisions visited in their defined order.
visit_order_defined(n) == [i \in 1..n |-> i]

\* The divisions visited in reverse of their defined order.
visit_order(n) == [i \in 1..n |-> n + 1 - i]

\* The mapping returned unchanged only when its sum is the target exactly.
within_tolerance_exact(total, target) == FEq(total, target)

\* |sum(ratios) - target| < 0.001
within_tolerance(total, target) == FLt(FAbs(FSub(total, target)), F0_001)

\* remaining is about 0: it is 0, or below the tolerance in absolute value.
about_zero(remaining, stop_tolerance) ==
  IsZero(remaining) \/ FLt(FAbs(remaining), stop_tolerance)

\* One visit: the division gains min(remaining, 1.0 - current_ratio) when
\* the difference is positive, loses min(|remaining|, current_ratio) when it
\* is negative, and the remainder is reduced accordingly.
adjust_one(current_ratio, remaining) ==
  IF FGt(remaining, F0)
    THEN Let1(FMin(remaining, FSub(F1, current_ratio)), LAMBDA gain :
           [ratio |-> FAdd(current_ratio, gain), remaining |-> FSub(remaining, gain)])
    ELSE Let1(FMin(FAbs(remaining), current_ratio), LAMBDA loss :
           [ratio |-> FSub(current_ratio, loss), remaining |-> FAdd(remaining, loss)])

auto_adjust_ratios(ratios, target, stop_tolerance) ==
  LET n == Len(ratios.keys)
      values == [i \in 1..n |-> ratios.val[ratios.keys[i]]]
  IN  Let1(FSum(values), LAMBDA total :
        IF within_tolerance(total, target) THEN ratios
        ELSE
          LET order == visit_order(n)
              visit[i \in 0..n] ==
                IF i = 0 THEN [values |-> values, remaining |-> FSub(target, total)]
                ELSE IF about_zero(visit[i - 1].remaining, stop_tolerance)
                  THEN visit[i - 1]
                ELSE
                  LET one == adjust_one(visit[i - 1].values[order[i]],
                                        visit[i - 1].remaining)
                  IN  [values |-> [visit[i - 1].values EXCEPT ![order[i]] = one.ratio],
                       remaining |-> one.remaining]
          IN  Dict(ratios.keys,
                   [k \in Range(ratios.keys) |->
                      visit[n].values[CHOOSE i \in 1..n : ratios.keys[i] = k]]))

\* Ratios for three divisions: a grid of values, the two mappings of the
\* specification's examples, mappings whose sum misses 1 by 0.0005, with or
\* without a division to adjust, and mappings with a ratio above 1.
AdjustGrid == {F0, Dec(2, 10), Dec(5, 10), F1}

Triple(a, b, c) ==
  Dict(ThreeNames, [k \in Range(ThreeNames) |->
                      IF k = ThreeNames[1] THEN a ELSE IF k = ThreeNames[2] THEN b ELSE c])

ExampleOver == Triple(Dec(5, 10), Dec(3, 10), Dec(4, 10))

ExampleUnder == Triple(Dec(2, 10), Dec(2, 10), Dec(2, 10))

AdjustInputs ==
  {Triple(a, b, c) : a, b, c \in AdjustGrid}
  \cup {ExampleOver, ExampleUnder,
        Triple(Dec(5, 10), Dec(5005, 10000), F0),
        Triple(Dec(5, 10), Dec(5005, 10000), Dec(4, 10)),
        Triple(Dec(15, 10), Dec(2, 10), Dec(4, 10)),
        Triple(Dec(2, 10), Dec(15, 10), F0)}

AdjustTargets == {F1, FromInt(2)}

StopTolerances == {F0, F0_001}

AutoAdjustRatios ==
  \E ratios \in AdjustInputs, target \in AdjustTargets, stop_tolerance \in StopTolerances :
    Query([op |-> "auto_adjust_ratios", ratios |-> ratios, target |-> target,
           stop_tolerance |-> stop_tolerance],
          Ok(auto_adjust_ratios(ratios, target, stop_tolerance)))

\* The utility called on its own: the engine as constructed, no session.
AdjustInit ==
  /\ departments = SourceData.departments
  /\ headquarters_fixed_cost = SourceData.headquarters_fixed_cost
  /\ headquarters_variable_cost = SourceData.headquarters_variable_cost
  /\ allocation_ratios = InitialRatios(departments.keys)
  /\ cost_transfers = EmptyDict
  /\ fixed_ratios = EmptyDict
  /\ variable_ratios = EmptyDict
  /\ call = NoCall
  /\ ret = NoRet
  /\ last_alloc = NoAlloc
  /\ users = DefaultUsers
  /\ authenticated = FALSE
  /\ current_user = Absent
  /\ login_attempts = 0
  /\ lockout_until = Absent
  /\ now = 0
  /\ reader = NoReader
  /\ client = NoClient

AdjustNext ==
  \/ AutoAdjustRatios
  \/ Return

AdjustSpec == AdjustInit /\ [][AdjustNext]_vars

(***************************************************************************)
(* calculate_allocated_costs run by a reader thread while a writer calls   *)
(* update_allocation_ratios.  The writer's assignment of                   *)
(* self.allocation_ratios is one step; the reader loads                    *)
(* self.allocation_ratios anew for each of its two subscriptions per       *)
(* division (lines 95 and 96), and a thread switch may fall between any    *)
(* two of them.                                                            *)
(***************************************************************************)
ConcRatios ==
  {InitialRatios(TwoNames),
   HeadTail(TwoNames, Pair(F1, F0), Pair(F0, F1)),
   HeadTail(TwoNames, Pair(F0, F1), Pair(F1, F0))}

Reading == reader.pc \in {"fixed", "variable"}

\* The reader ends its call with an outcome.
ReaderEnds(outcome) ==
  reader' = [pc |-> "done", outcome |-> Out("calculate_allocated_costs", outcome),
             seen |-> reader.seen]

ReaderCalls ==
  /\ reader.pc = "idle"
  /\ reader' = [pc |-> "fixed", i |-> 1, fixed |-> F0, rows |-> <<>>,
                seen |-> {allocation_ratios}]
  /\ UNCHANGED <<engine, session, call, ret, last_alloc, auth, client>>

\* Lines 92 and 95: the implied sales, then the fixed ratio of the mapping
\* that is current now.
ReaderReadsFixed ==
  /\ reader.pc = "fixed"
  /\ LET dept_name == dept_names[reader.i]
     IN  IF ~IsOk(calculate_implied_sales(dept_name))
           THEN ReaderEnds(calculate_implied_sales(dept_name))
         ELSE IF ~Has(allocation_ratios, dept_name)
           THEN ReaderEnds(RaiseKey(dept_name))
         ELSE reader' = [reader EXCEPT !.pc = "variable",
                                       !.fixed = allocation_ratios.val[dept_name].fixed]
  /\ UNCHANGED <<engine, session, call, ret, last_alloc, auth, client>>

\* Lines 99-128 for the division at hand, with the variable ratio just read:
\* the division's record; the loop goes on, or the call returns.
ReaderCompletes(dept_name, variable_ratio) ==
  LET totals == allocated_totals(dept_name, calculate_implied_sales(dept_name).val,
                                 FMul(headquarters_fixed_cost, reader.fixed),
                                 FMul(headquarters_variable_cost, variable_ratio))
  IN  IF ~IsOk(totals) THEN ReaderEnds(totals)
      ELSE IF reader.i = Len(dept_names)
        THEN ReaderEnds(Ok(Dict(dept_names,
                                [n \in Range(dept_names) |->
                                   IF n = dept_name THEN totals.val
                                   ELSE reader.rows[CHOOSE j \in 1..Len(reader.rows) :
                                                      dept_names[j] = n]])))
      ELSE reader' = [reader EXCEPT !.pc = "fixed", !.i = @ + 1,
                                    !.rows = Append(@, totals.val)]

\* Line 96 reading the "fixed" entry once more.
ReaderReadsFixedTwice ==
  /\ reader.pc = "variable"
  /\ LET dept_name == dept_names[reader.i]
     IN  IF ~Has(allocation_ratios, dept_name) THEN ReaderEnds(RaiseKey(dept_name))
         ELSE ReaderCompletes(dept_name, allocation_ratios.val[dept_name].fixed)
  /\ UNCHANGED <<engine, session, call, ret, last_alloc, auth, client>>

\* Line 96: the variable ratio of the mapping that is current now.
ReaderReadsVariable ==
  /\ reader.pc = "variable"
  /\ LET dept_name == dept_names[reader.i]
     IN  IF ~Has(allocation_ratios, dept_name) THEN ReaderEnds(RaiseKey(dept_name))
         ELSE ReaderCompletes(dept_name, allocation_ratios.val[dept_name].variable)
  /\ UNCHANGED <<engine, session, call, ret, last_alloc, auth, client>>

\* The caller takes the reader's outcome.
ReaderReturns ==
  /\ reader.pc = "done"
  /\ reader' = NoReader
  /\ UNCHANGED <<engine, session, call, ret, last_alloc, auth, client>>

\* The writer: update_allocation_ratios, one call at a time, each a single
\* assignment.  The reader's history records the mappings current during
\* its call.
WriterUpdates ==
  /\ \E new_ratios \in ConcRatios :
       /\ new_ratios # allocation_ratios
       /\ allocation_ratios' = new_ratios
       /\ reader' = IF Reading THEN [reader EXCEPT !.seen = @ \cup {new_ratios}]
                    ELSE reader
  /\ UNCHANGED <<departments, headquarters_fixed_cost, headquarters_variable_cost,
                 cost_transfers, session, call, ret, last_alloc, auth, client>>

ConcInit ==
  /\ departments = BreakEvenData.departments
  /\ headquarters_fixed_cost = BreakEvenData.headquarters_fixed_cost
  /\ headquarters_variable_cost = BreakEvenData.headquarters_variable_cost
  /\ allocation_ratios = InitialRatios(departments.keys)
  /\ cost_transfers = EmptyDict
  /\ fixed_ratios = EmptyDict
  /\ variable_ratios = EmptyDict
  /\ call = NoCall
  /\ ret = NoRet
  /\ last_alloc = NoAlloc
  /\ users = DefaultUsers
  /\ authenticated = FALSE
  /\ current_user = Absent
  /\ login_attempts = 0
  /\ lockout_until = Absent
  /\ now = 0
  /\ reader = NoReader
  /\ client = NoClient

ConcNext ==
  \/ ReaderCalls
  \/ ReaderReadsFixed
  \/ ReaderReadsVariable
  \/ ReaderReturns
  \/ WriterUpdates

ConcSpec == ConcInit /\ [][ConcNext]_vars

(***************************************************************************)
(* The authentication of a browser session (AuthManager over               *)
(* st.session_state) and the gate of the dashboard's main flow.  A run of   *)
(* main is one step: Streamlit runs the script from top to bottom for each  *)
(* event of the browser.  The page parameter is part of the URL and so an   *)
(* input of each run.                                                       *)
(***************************************************************************)
Usernames == {"admin", "staff", ""}

Passwords == {"admin123", "staff123", ""}

Roles == {"user", "admin"}

Pages == {None, "profile", "user_management", "logout"}

Event(kind, username, password, new_password, role) ==
  [kind |-> kind, username |-> username, password |-> password,
   new_password |-> new_password, role |-> role]

\* What the user does in the browser before a run: nothing, or a button or
\* a form of the page shown.
Events ==
  {Event(k, "", "", "", "user") : k \in {"none", "cancel", "logout"}}
  \cup {Event("login", u, p, "", "user") : u \in Usernames, p \in Passwords}
  \cup {Event("add_user", "staff", p, "", r) : p \in {"staff123", "abc"}, r \in Roles}
  \cup {Event("add_user", "admin", "staff123", "", "user")}
  \cup {Event("change_password", u, p, q, "user") :
          u \in {"admin", "staff"}, p \in {"admin123", "staff123"},
          q \in {"staff123", "abc"}}

\* The widgets of the page a run of main shows, by the events they take.
Offered(page, event) ==
  IF page = "logout" THEN event.kind = "none"
  ELSE IF ~is_authenticated
    THEN IF page = "profile" THEN event.kind = "none"
         ELSE event.kind \in {"none", "cancel", "login"}
  ELSE IF page = "profile"
    THEN \/ event.kind \in {"none", "logout"}
         \/ /\ event.kind = "change_password"
            /\ get_current_user # Absent
            /\ event.username = get_current_user[1].username
  ELSE IF page = "user_management"
    THEN IF may_manage_users THEN event.kind \in {"none", "add_user", "change_password"}
         ELSE event.kind = "none"
  ELSE event.kind \in {"none", "logout"}

\* A run of main: where it ended and the parts of the program it ran.
Ran(ended, reached) ==
  Out("main", Ok([ended |-> ended, reached |-> reached]))

\* AuthManager.login called by a client.
Login ==
  \E username \in Usernames, password \in Passwords :
    /\ login(username, password)
    /\ call' = [op |-> "login", username |-> username, password |-> password]
    /\ ret' = Out("login", Ok(login_succeeds(username, password)))
    /\ UNCHANGED <<engine, session, last_alloc, users, now, sharing>>

Logout ==
  /\ logout
  /\ call' = [op |-> "logout"]
  /\ ret' = Out("logout", Ok(None))
  /\ UNCHANGED <<engine, session, last_alloc, users, now, sharing>>

\* A minute passes.
Tick ==
  /\ now < MaxNow
  /\ now' = now + 1
  /\ UNCHANGED <<engine, session, call, ret, last_alloc, users, authenticated,
                 current_user, login_attempts, lockout_until, sharing>>

\* show_login_page.
LoginPage(event) ==
  IF event.kind = "login" /\ event.username # "" /\ event.password # ""
    THEN /\ login(event.username, event.password)
         /\ ret' = Ran(IF login_succeeds(event.username, event.password)
                         THEN "login_rerun" ELSE "login_form",
                       {"login_form", "login"})
         /\ UNCHANGED <<users, now>>
  ELSE /\ ret' = Ran("login_form", {"login_form"})
       /\ UNCHANGED auth

\* show_user_profile.
ProfilePage(event) ==
  IF get_current_user = Absent
    THEN ret' = Ran("not_logged_in", {"profile"}) /\ UNCHANGED auth
  ELSE IF event.kind = "change_password" /\ event.username = get_current_user[1].username
    THEN /\ users' = change_password(event.username, event.password, event.new_password)
         /\ ret' = Ran("profile", {"profile", "change_password"})
         /\ UNCHANGED <<authenticated, current_user, login_attempts, lockout_until, now>>
  ELSE IF event.kind = "logout"
    THEN /\ logout
         /\ ret' = Ran("logout_rerun", {"profile", "logout"})
         /\ UNCHANGED <<users, now>>
  ELSE ret' = Ran("profile", {"profile"}) /\ UNCHANGED auth

\* show_user_management_page.
UserManagementPage(event) ==
  IF ~may_manage_users
    THEN ret' = Ran("admin_required", {}) /\ UNCHANGED auth
  ELSE IF event.kind = "add_user"
    THEN /\ users' = add_user(event.username, event.password, "Staff", event.role)
         /\ ret' = Ran(IF add_user(event.username, event.password, "Staff", event.role)
                            # users
                         THEN "add_user_rerun" ELSE "user_management",
                       {"user_management", "add_user"})
         /\ UNCHANGED <<authenticated, current_user, login_attempts, lockout_until, now>>
  ELSE IF event.kind = "change_password"
    THEN /\ users' = change_password(event.username, event.password, event.new_password)
         /\ ret' = Ran("user_management", {"user_management", "change_password"})
         /\ UNCHANGED <<authenticated, current_user, login_attempts, lockout_until, now>>
  ELSE ret' = Ran("user_management", {"user_management"}) /\ UNCHANGED auth

\* The dashboard: the sidebar with its menu and its ratio inputs, then the
\* engine's queries.  The inputs are left as they are here (the Sidebar of
\* Spec edits them), so the ratios pushed are the ratios the engine has.
Dashboard(event) ==
  IF event.kind = "logout"
    THEN /\ logout
         /\ ret' = Ran("logout_rerun", {"dashboard", "logout"})
         /\ UNCHANGED <<users, now>>
  ELSE /\ ret' = Ran("dashboard", {"dashboard", "update_allocation_ratios", "queries"})
       /\ UNCHANGED auth

\* main, from the page parameter to the end of the run.
Main ==
  \E page \in Pages, event \in Events :
    /\ Offered(page, event)
    /\ call' = [op |-> "main", page |-> page, event |-> event]
    /\ IF page = "logout"
         THEN /\ logout
              /\ ret' = Ran("logout_rerun", {"logout"})
              /\ UNCHANGED <<users, now>>
       ELSE IF ~is_authenticated
         THEN IF page = "profile"
                THEN ret' = Ran("login_required", {}) /\ UNCHANGED auth
              ELSE LoginPage(event)
       ELSE IF page = "profile" THEN ProfilePage(event)
       ELSE IF page = "user_management" THEN UserManagementPage(event)
       ELSE Dashboard(event)
    /\ UNCHANGED <<engine, session, last_alloc, sharing>>

AuthInit ==
  /\ departments = SourceData.departments
  /\ headquarters_fixed_cost = SourceData.headquarters_fixed_cost
  /\ headquarters_variable_cost = SourceData.headquarters_variable_cost
  /\ allocation_ratios = InitialRatios(departments.keys)
  /\ cost_transfers = EmptyDict
  /\ fixed_ratios = session_ratios("fixed")
  /\ variable_ratios = session_ratios("variable")
  /\ call = NoCall
  /\ ret = NoRet
  /\ last_alloc = NoAlloc
  /\ users = DefaultUsers
  /\ authenticated = FALSE
  /\ current_user = Absent
  /\ login_attempts = 0
  /\ lockout_until = Absent
  /\ now = 0
  /\ reader = NoReader
  /\ client = NoClient

AuthNext ==
  \/ Login
  \/ Logout
  \/ Tick
  \/ Main

AuthSpec == AuthInit /\ [][AuthNext]_vars

(***************************************************************************)
(* A client of the engine that keeps the mappings it gets from it and the  *)
(* mapping it passes to it, and changes them afterwards.  The getters      *)
(* return dict.copy(), a new dict over the same inner dicts;               *)
(* update_allocation_ratios stores the dict it is given.  `client` is the   *)
(* mapping the client holds: the call it comes from and its keys; its       *)
(* inner dicts are the engine's.                                            *)
(***************************************************************************)
AliasRatios == {HeadTail(TwoNames, Pair(F0, F1), Pair(F1, F0))}

\* The changes a client makes to one mapping.
MaxChanges == 2

MayChange == client.holds # None /\ client.changes < MaxChanges

\* The client's mapping is the very dict the engine holds.
SameDict == client.holds = "update_allocation_ratios"

ClientGets ==
  /\ \/ client' = [holds |-> "get_department_data", keys |-> departments.keys,
                    does |-> "get", changes |-> 0]
     \/ client' = [holds |-> "get_allocation_ratios", keys |-> allocation_ratios.keys,
                    does |-> "get", changes |-> 0]
  /\ UNCHANGED <<engine, session, call, ret, last_alloc, auth, reader>>

ClientUpdates ==
  /\ \E new_ratios \in AliasRatios :
       /\ allocation_ratios' = new_ratios
       /\ client' = [holds |-> "update_allocation_ratios", keys |-> new_ratios.keys,
                     does |-> "update", changes |-> 0]
  /\ UNCHANGED <<departments, headquarters_fixed_cost, headquarters_variable_cost,
                 cost_transfers, session, call, ret, last_alloc, auth, reader>>

\* mapping["X"] = {...}
ClientAddsKey ==
  /\ MayChange
  /\ Unknown \notin Range(client.keys)
  /\ client' = [client EXCEPT !.keys = @ \o <<Unknown>>, !.does = "add_key",
                               !.changes = @ + 1]
  /\ allocation_ratios' = IF SameDict THEN WithExtra(allocation_ratios)
                          ELSE allocation_ratios
  /\ UNCHANGED <<departments, headquarters_fixed_cost, headquarters_variable_cost,
                 cost_transfers, session, call, ret, last_alloc, auth, reader>>

\* del mapping[key], for the last key.
ClientRemovesKey ==
  /\ MayChange
  /\ client.keys # <<>>
  /\ client' = [client EXCEPT !.keys = SubSeq(@, 1, Len(@) - 1), !.does = "remove_key",
                               !.changes = @ + 1]
  /\ allocation_ratios' = IF SameDict THEN OmitLast(allocation_ratios)
                          ELSE allocation_ratios
  /\ UNCHANGED <<departments, headquarters_fixed_cost, headquarters_variable_cost,
                 cost_transfers, session, call, ret, last_alloc, auth, reader>>

\* mapping[name]["margin_rate"] = 1 or mapping[name]["fixed"] = 1, for the
\* first key: an inner dict that came from the engine.
ClientChangesField ==
  /\ MayChange
  /\ client.keys # <<>>
  /\ LET n == client.keys[1]
     IN  IF client.holds = "get_department_data"
           THEN /\ Has(departments, n)
                /\ departments' = [departments EXCEPT !.val[n].margin_rate = F1]
                /\ UNCHANGED allocation_ratios
         ELSE /\ Has(allocation_ratios, n)
              /\ allocation_ratios' = [allocation_ratios EXCEPT !.val[n].fixed = F1]
              /\ UNCHANGED departments
  /\ client' = [client EXCEPT !.does = "change_field", !.changes = @ + 1]
  /\ UNCHANGED <<headquarters_fixed_cost, headquarters_variable_cost,
                 cost_transfers, session, call, ret, last_alloc, auth, reader>>

\* A query of the engine after the client's changes.
ClientQueries ==
  /\ call' = [op |-> "calculate_allocated_costs"]
  /\ ret' = Out("calculate_allocated_costs", calculate_allocated_costs)
  /\ UNCHANGED <<engine, session, last_alloc, auth, sharing>>

AliasInit ==
  /\ departments = BreakEvenData.departments
  /\ headquarters_fixed_cost = BreakEvenData.headquarters_fixed_cost
  /\ headquarters_variable_cost = BreakEvenData.headquarters_variable_cost
  /\ allocation_ratios = InitialRatios(departments.keys)
  /\ cost_transfers = EmptyDict
  /\ fixed_ratios = EmptyDict
  /\ variable_ratios = EmptyDict
  /\ call = NoCall
  /\ ret = NoRet
  /\ last_alloc = NoAlloc
  /\ users = DefaultUsers
  /\ authenticated = FALSE
  /\ current_user = Absent
  /\ login_attempts = 0
  /\ lockout_until = Absent
  /\ now = 0
  /\ reader = NoReader
  /\ client = NoClient

AliasNext ==
  \/ ClientGets
  \/ ClientUpdates
  \/ ClientAddsKey
  \/ ClientRemovesKey
  \/ ClientChangesField
  \/ ClientQueries

AliasSpec == AliasInit /\ [][AliasNext]_vars

(***************************************************************************)
(* The contract of the engine.                                             *)
(***************************************************************************)
Updating == {"update_allocation_ratios", "sidebar", "reset"}

\* Real arithmetic on doubles.  A term [s, m, e] is the number
\* (-1)^s * m * 2^e for any natural m: a double is a term, and so is the
\* exact product of two doubles.
ExactMul(x, y) ==
  IF IsZero(x) \/ IsZero(y) THEN Zero
  ELSE [s |-> (x.s + y.s) % 2, m |-> NatMul(x.m, y.m), e |-> x.e + y.e]

\* The sum of the magnitudes of the terms of sign s, in units of 2^unit.
ExactPart(terms, s, unit) ==
  LET acc[i \in 0..Len(terms)] ==
        IF i = 0 THEN <<>>
        ELSE IF terms[i].s = s /\ ~IsZero(terms[i])
          THEN NatAdd(acc[i - 1], NatShl(terms[i].m, terms[i].e - unit))
        ELSE acc[i - 1]
  IN  acc[Len(terms)]

\* -1, 0 or 1 as the exact sum of the terms of `left` is below, equal to or
\* above the exact sum of the terms of `right`.
ExactCmp(left, right) ==
  Let2(left, right, LAMBDA l, r :
    LET exps == {0} \cup {l[i].e : i \in 1..Len(l)} \cup {r[i].e : i \in 1..Len(r)}
        unit == CHOOSE x \in exps : \A y \in exps : x <= y
    IN  NatCmp(NatAdd(ExactPart(l, 0, unit), ExactPart(r, 1, unit)),
               NatAdd(ExactPart(r, 0, unit), ExactPart(l, 1, unit))))

\* 2^-52, the distance from 1.0 to the next double.
Eps == Let1(FDiv(F1, FromInt(2 ^ 26)), LAMBDA h : FMul(h, h))

Magnitudes(seq) == [i \in 1..Len(seq) |-> FAbs(seq[i])]

\* C1: calculate_allocated_costs called again with no update of the ratios in
\* between returns the outcome of the call before, the same in every field
\* of every division.
C1_Idempotent ==
  [][(call'.op = "calculate_allocated_costs" /\ last_alloc.calls > 0)
       => ret' = last_alloc.outcome]_vars

\* A second call has returned the records it returned the first time.
C1_CalledTwice ==
  /\ call.op = "calculate_allocated_costs"
  /\ last_alloc.calls = 2
  /\ ret.err = "none"

\* C2: no step changes the division data, the headquarters totals or the
\* cost transfers, and only update_allocation_ratios (called by a client or
\* by the dashboard's sidebar and reset button) changes the ratio mapping.
C2_Frame ==
  [][/\ UNCHANGED <<departments, headquarters_fixed_cost,
                    headquarters_variable_cost, cost_transfers>>
     /\ (call'.op \notin Updating => UNCHANGED allocation_ratios)]_vars

\* A query has run on ratios that validate_allocation_ratios finds invalid.
C2_QueriedAfterUpdate ==
  /\ call.op = "validate_allocation_ratios"
  /\ ret.err = "none"
  /\ ~ret.validate_allocation_ratios
  /\ allocation_ratios # InitialRatios(dept_names)

\* C3: right after update_allocation_ratios(new_ratios) the engine's ratio
\* mapping is new_ratios: the same keys in the same order with the same
\* pairs, nothing of the mapping before.
C3_Replaced ==
  [][call'.op = "update_allocation_ratios"
       => allocation_ratios' = call'.new_ratios]_vars

\* An update whose mapping omits a division: the division has no ratios left.
C3_KeyOmitted ==
  /\ call.op = "update_allocation_ratios"
  /\ \E n \in Range(dept_names) : ~Has(call.new_ratios, n) /\ ~Has(allocation_ratios, n)

\* C4: update_allocation_ratios succeeds and stores what it is given;
\* calculate_allocated_costs multiplies the headquarters totals by the stored
\* ratios as they are; the sidebar stores the ratio the user typed in the
\* engine whether or not the totals of the ratios are within 0.001 of 1.
C4_NoRejection ==
  [][/\ call'.op = "update_allocation_ratios"
          => ret'.err = "none" /\ allocation_ratios' = call'.new_ratios
     /\ (call'.op = "calculate_allocated_costs" /\ ret'.err = "none")
          => \A n \in Range(dept_names) :
               LET costs == ret'.calculate_allocated_costs.val[n]
                   ratio == allocation_ratios.val[n]
               IN  /\ costs.hq_fixed_allocated =
                        FMul(headquarters_fixed_cost, ratio.fixed)
                   /\ costs.hq_variable_allocated =
                        FMul(headquarters_variable_cost, ratio.variable)
     /\ (call'.op = "sidebar" /\ call'.edit.dept_name # None)
          => LET edit == call'.edit
                 typed == FDiv(edit.percent, F100)
                 before == IF edit.kind = "fixed" THEN fixed_ratios.val[edit.dept_name]
                           ELSE variable_ratios.val[edit.dept_name]
                 after == IF edit.kind = "fixed"
                            THEN allocation_ratios'.val[edit.dept_name].fixed
                            ELSE allocation_ratios'.val[edit.dept_name].variable
             IN  /\ ret'.err = "none"
                 /\ after = IF FGt(FAbs(FSub(typed, before)), F0_001)
                              THEN typed ELSE before]_vars

\* The dashboard shows the warning for the fixed ratios, the engine holds the
\* session's ratios all the same, and calculate_allocated_costs has used them.
C4_PushedUnderWarning ==
  /\ InSession
  /\ call.op = "calculate_allocated_costs"
  /\ ret.err = "none"
  /\ ~total_ok(fixed_ratios)
  /\ allocation_ratios = new_ratios_of(fixed_ratios, variable_ratios)

\* The records calculate_allocated_costs has returned, one field of each
\* division, in the order of the divisions.
Allocated(field) ==
  [i \in 1..Len(dept_names) |-> ret.calculate_allocated_costs.val[dept_names[i]][field]]

\* calculate_allocated_costs has returned for ratios that cover exactly the
\* divisions.
AllocatedForDivisions ==
  /\ call.op = "calculate_allocated_costs"
  /\ ret.err = "none"
  /\ Len(allocation_ratios.keys) = Len(dept_names)
  /\ Range(allocation_ratios.keys) = Range(dept_names)

\* The ratios of one kind sum to 1 when added in double precision, as sum()
\* adds them; they sum to 1 as real numbers.
FloatSumIsOne(kind) == FEq(FSum(ratio_values(allocation_ratios, kind)), F1)

ExactSumIsOne(kind) == ExactCmp(ratio_values(allocation_ratios, kind), <<F1>>) = 0

\* The allocated amounts add up to the total, in double precision or as
\* real numbers.
Conserved(field, total) ==
  \/ FEq(FSum(Allocated(field)), total)
  \/ ExactCmp(Allocated(field), <<total>>) = 0

\* The allocated amounts, added in double precision, are within
\* N * 2^-52 * |total| * (sum of |ratio|) of the total.
ConservedRounded(field, total, kind) ==
  LET ratios == ratio_values(allocation_ratios, kind)
      bound == FMul(FMul(FromInt(Len(ratios)), Eps),
                    FMul(FAbs(total), FSum(Magnitudes(ratios))))
  IN  ~FGt(FAbs(FSub(FSum(Allocated(field)), total)), bound)

\* C5 as stated: for ratios that cover exactly the divisions and sum to
\* exactly 1 (in double precision and as real numbers), the allocated fixed
\* amounts sum to the headquarters' fixed total and the allocated variable
\* amounts to its variable total (in double precision or as real numbers).
C5_Conservation ==
  (/\ AllocatedForDivisions
   /\ FloatSumIsOne("fixed") /\ ExactSumIsOne("fixed")
   /\ FloatSumIsOne("variable") /\ ExactSumIsOne("variable"))
    => /\ Conserved("hq_fixed_allocated", headquarters_fixed_cost)
       /\ Conserved("hq_variable_allocated", headquarters_variable_cost)

\* C5 amended: for ratios that cover exactly the divisions and sum to exactly
\* 1 (in double precision or as real numbers), the allocated amounts added in
\* double precision differ from the headquarters' total by no more than the
\* rounding of N products and N additions.
C5_ConservationRounded ==
  (/\ AllocatedForDivisions
   /\ FloatSumIsOne("fixed") \/ ExactSumIsOne("fixed")
   /\ FloatSumIsOne("variable") \/ ExactSumIsOne("variable"))
    => /\ ConservedRounded("hq_fixed_allocated", headquarters_fixed_cost, "fixed")
       /\ ConservedRounded("hq_variable_allocated", headquarters_variable_cost,
                           "variable")

\* Ratios that sum to exactly 1 and allocated fixed amounts that do not sum to
\* the total.
C5_RoundedOff ==
  /\ AllocatedForDivisions
  /\ FloatSumIsOne("fixed") /\ ExactSumIsOne("fixed")
  /\ FloatSumIsOne("variable") /\ ExactSumIsOne("variable")
  /\ ~Conserved("hq_fixed_allocated", headquarters_fixed_cost)

\* The sum of the ratios of one kind is within 0.001 of 1: as real numbers
\* (0.001 being the double the source's literal denotes), and as the source
\* evaluates it.
ExactWithin(kind) ==
  LET ratios == ratio_values(allocation_ratios, kind)
  IN  /\ ExactCmp(ratios, <<F1, F0_001>>) < 0
      /\ ExactCmp(<<F1>>, ratios \o <<F0_001>>) < 0

FloatWithin(kind) ==
  FLt(FAbs(FSub(FSum(ratio_values(allocation_ratios, kind)), F1)), F0_001)

\* The rounding of the sum of N ratios: N * 2^-52 * |ratio| for each ratio.
Slack(kind) ==
  LET ratios == ratio_values(allocation_ratios, kind)
  IN  [i \in 1..Len(ratios) |->
         ExactMul(FMul(FromInt(Len(ratios)), Eps), FAbs(ratios[i]))]

\* The sum is within 0.001 of 1 by more than the rounding; it is off by 0.001
\* or more by more than the rounding.
ClearlyWithin(kind) ==
  LET ratios == ratio_values(allocation_ratios, kind)
  IN  /\ ExactCmp(ratios \o Slack(kind), <<F1, F0_001>>) < 0
      /\ ExactCmp(<<F1>> \o Slack(kind), ratios \o <<F0_001>>) < 0

ClearlyBeyond(kind) ==
  LET ratios == ratio_values(allocation_ratios, kind)
  IN  \/ ExactCmp(ratios, <<F1, F0_001>> \o Slack(kind)) >= 0
      \/ ExactCmp(<<F1>>, ratios \o <<F0_001>> \o Slack(kind)) >= 0

\* C6 as stated: validate_allocation_ratios returns true exactly when the sum
\* of the fixed ratios and the sum of the variable ratios are each less than
\* 0.001 away from 1, and it changes no state.
C6_Validate ==
  [][call'.op = "validate_allocation_ratios"
       => /\ ret'.validate_allocation_ratios
               = (ExactWithin("fixed") /\ ExactWithin("variable"))
          /\ UNCHANGED <<engine, session>>]_vars

\* C6 amended: it returns true exactly when both sums are less than 0.001
\* away from 1 with the sums, the differences and the comparisons made in
\* double precision in the mapping's order; this is the exact answer unless a
\* sum is within the rounding of N additions of 0.999 or 1.001; it changes
\* no state.
C6_ValidateRounded ==
  [][call'.op = "validate_allocation_ratios"
       => /\ ret'.validate_allocation_ratios
               = (FloatWithin("fixed") /\ FloatWithin("variable"))
          /\ (ClearlyWithin("fixed") /\ ClearlyWithin("variable"))
               => ret'.validate_allocation_ratios
          /\ (ClearlyBeyond("fixed") \/ ClearlyBeyond("variable"))
               => ~ret'.validate_allocation_ratios
          /\ UNCHANGED <<engine, session>>]_vars

\* Ratios found valid whose sum is not less than 0.001 away from 1.
C6_ValidAtThreshold ==
  /\ call.op = "validate_allocation_ratios"
  /\ ret.err = "none"
  /\ ret.validate_allocation_ratios
  /\ ~ExactWithin("fixed")

\* C7: in the record calculate_allocated_costs returns for a division, the
\* fixed cost is the division's plus the allocated plus the transfer, the
\* variable cost likewise, the sales are the implied sales plus the allocated
\* variable cost, the sales increase is the allocated variable cost, the
\* margin rate is (sales - variable cost) / sales, and a transfer that
\* cost_transfers does not hold is 0.
C7_Fields ==
  (call.op = "calculate_allocated_costs" /\ ret.err = "none")
    => \A n \in Range(dept_names) :
         LET costs == ret.calculate_allocated_costs.val[n]
             dept_data == departments.val[n]
         IN  /\ ~Has(cost_transfers, <<n, "fixed">>) => costs.transfer_fixed = F0
             /\ ~Has(cost_transfers, <<n, "variable">>) => costs.transfer_variable = F0
             /\ Ok(costs.original_implied_sales) = calculate_implied_sales(n)
             /\ costs.fixed_cost =
                  FAdd(FAdd(dept_data.fixed_cost, costs.hq_fixed_allocated),
                       costs.transfer_fixed)
             /\ costs.variable_cost =
                  FAdd(FAdd(dept_data.variable_cost, costs.hq_variable_allocated),
                       costs.transfer_variable)
             /\ costs.implied_sales =
                  FAdd(costs.original_implied_sales, costs.hq_variable_allocated)
             /\ costs.sales_increase = costs.hq_variable_allocated
             /\ costs.margin_rate =
                  FDiv(FSub(costs.implied_sales, costs.variable_cost),
                       costs.implied_sales)

\* Records returned after an update, with an allocation that changes a
\* division's margin rate.
C7_Allocated ==
  /\ call.op = "calculate_allocated_costs"
  /\ ret.err = "none"
  /\ allocation_ratios # InitialRatios(dept_names)
  /\ \E n \in Range(dept_names) :
       LET costs == ret.calculate_allocated_costs.val[n]
       IN  /\ ~IsZero(costs.hq_fixed_allocated)
           /\ ~IsZero(costs.hq_variable_allocated)
           /\ ~FEq(costs.margin_rate, costs.original_margin_rate)

\* calculate_implied_sales has returned for a division with a margin rate
\* strictly between 0 and 1 and a variable cost of 0 or more.
ImpliedSalesReturned ==
  /\ call.op = "calculate_implied_sales"
  /\ ret.err = "none"
  /\ FGt(departments.val[call.dept_name].margin_rate, F0)
  /\ FLt(departments.val[call.dept_name].margin_rate, F1)
  /\ ~FLt(departments.val[call.dept_name].variable_cost, F0)

\* implied sales * (1 - margin rate), in double precision.
RoundTrip ==
  FMul(ret.calculate_implied_sales,
       FSub(F1, departments.val[call.dept_name].margin_rate))

\* C8 as stated: for such a division, variable_cost = implied sales *
\* (1 - margin rate), in double precision or as real numbers.
C8_RoundTrip ==
  ImpliedSalesReturned
    => LET dept_data == departments.val[call.dept_name]
           implied_sales == ret.calculate_implied_sales
       IN  \/ FEq(RoundTrip, dept_data.variable_cost)
           \/ ExactCmp(<<implied_sales>>,
                       <<dept_data.variable_cost,
                         ExactMul(implied_sales, dept_data.margin_rate)>>) = 0

\* C8 amended: for such a division, implied sales * (1 - margin rate) in
\* double precision is within 2^-51 * variable_cost of variable_cost.
C8_RoundTripRounded ==
  ImpliedSalesReturned
    => LET variable_cost == departments.val[call.dept_name].variable_cost
       IN  ~FGt(FAbs(FSub(RoundTrip, variable_cost)),
                FMul(FMul(FromInt(2), Eps), variable_cost))

\* A division whose round trip does not give its variable cost back.
C8_RoundedOff ==
  /\ ImpliedSalesReturned
  /\ ~FEq(RoundTrip, departments.val[call.dept_name].variable_cost)

\* C9: calculate_implied_sales for a division with a margin rate of 1 raises
\* ZeroDivisionError; it returns no value, whatever the variable cost.
C9_UnitMarginRaises ==
  (/\ call.op = "calculate_implied_sales"
   /\ Has(departments, call.dept_name)
   /\ FEq(departments.val[call.dept_name].margin_rate, F1))
    => ret.err = "ZeroDivisionError"

\* The call has failed for a division with a margin rate of 1 and a variable
\* cost above 0.
C9_Raised ==
  /\ call.op = "calculate_implied_sales"
  /\ Has(departments, call.dept_name)
  /\ FEq(departments.val[call.dept_name].margin_rate, F1)
  /\ FGt(departments.val[call.dept_name].variable_cost, F0)
  /\ ret.err = "ZeroDivisionError"

\* What queries would return in a state.
LaterQueries ==
  <<Out("calculate_allocated_costs", calculate_allocated_costs),
    validate_allocation_ratios,
    Out("calculate_implied_sales", calculate_implied_sales(dept_names[1]))>>

\* C10: a query that raises ZeroDivisionError or KeyError leaves the division
\* data, the headquarters totals, the ratios and the transfers as they were,
\* and the queries after it return what they would have returned before it.
C10_FailureHarmless ==
  [][ret'.err \in {"ZeroDivisionError", "KeyError"}
       => /\ UNCHANGED engine
          /\ LaterQueries' = LaterQueries]_vars

\* calculate_break_even_point has failed on a division by zero in an engine
\* whose calculate_allocated_costs succeeds.
C10_FailedQuery ==
  /\ call.op = "calculate_break_even_point"
  /\ ret.err = "ZeroDivisionError"
  /\ last_alloc.outcome.err = "none"

\* calculate_allocated_costs has succeeded since the latest update of the
\* ratios: its records are those of the current state.
AllocatedBefore == last_alloc.calls > 0 /\ last_alloc.outcome.err = "none"

CostsBefore(n) == last_alloc.outcome.calculate_allocated_costs.val[n]

\* C11: calculate_break_even_point for a division returns the fixed cost
\* divided by the margin rate of the record calculate_allocated_costs gives
\* for the current ratios, and raises ZeroDivisionError when that margin rate
\* is 0, which is when the sales after allocation equal the variable cost.
C11_BreakEven ==
  (/\ call.op = "calculate_break_even_point"
   /\ Has(departments, call.dept_name)
   /\ AllocatedBefore)
    => LET costs == CostsBefore(call.dept_name)
       IN  /\ IsZero(costs.margin_rate) <=> FEq(costs.implied_sales, costs.variable_cost)
           /\ IF IsZero(costs.margin_rate) THEN ret.err = "ZeroDivisionError"
              ELSE /\ ret.err = "none"
                   /\ ret.calculate_break_even_point =
                        FDiv(costs.fixed_cost, costs.margin_rate)

\* A break-even point returned for ratios set by an update, which differs
\* from the one of the division's own data.
C11_AfterUpdate ==
  /\ call.op = "calculate_break_even_point"
  /\ ret.err = "none"
  /\ AllocatedBefore
  /\ allocation_ratios # InitialRatios(dept_names)
  /\ ~FEq(ret.calculate_break_even_point,
          FDiv(departments.val[call.dept_name].fixed_cost,
               departments.val[call.dept_name].margin_rate))

\* C12: calculate_break_even_point for a name that is no division raises
\* KeyError in every state in which calculate_allocated_costs succeeds.
C12_UnknownDivision ==
  (/\ call.op = "calculate_break_even_point"
   /\ ~Has(departments, call.dept_name)
   /\ AllocatedBefore)
    => ret.err = "KeyError"

\* The call has failed for an unknown name after calculate_allocated_costs
\* succeeded on ratios set by an update.
C12_Raised ==
  /\ call.op = "calculate_break_even_point"
  /\ ~Has(departments, call.dept_name)
  /\ AllocatedBefore
  /\ allocation_ratios # InitialRatios(dept_names)
  /\ ret.err = "KeyError"

\* The divisions without variable cost whose margin rate is not 1: their
\* implied sales and their variable cost are 0 before allocation.
NoVariableCost ==
  {n \in Range(dept_names) : /\ IsZero(departments.val[n].variable_cost)
                             /\ ~FEq(departments.val[n].margin_rate, F1)}

\* The ratios cover exactly the divisions.
RatiosForDivisions ==
  /\ Len(allocation_ratios.keys) = Len(dept_names)
  /\ Range(allocation_ratios.keys) = Range(dept_names)

ImpactOf(n) == ret.get_allocation_impact_analysis.val[n]

\* C13 as stated: with a division without variable cost, the impact analysis
\* returns for every ratio mapping over the divisions and reports 0 for both
\* percentages of that division.
C13_ZeroGuards ==
  (/\ call.op = "get_allocation_impact_analysis"
   /\ NoVariableCost # {}
   /\ \A n \in Range(dept_names) : ~FEq(departments.val[n].margin_rate, F1)
   /\ RatiosForDivisions)
    => /\ ret.err = "none"
       /\ \A n \in NoVariableCost :
            /\ IsZero(ImpactOf(n).impact.variable_increase_pct)
            /\ IsZero(ImpactOf(n).impact.sales_increase_pct)

\* C13: whenever the impact analysis returns, a division without variable
\* cost is reported with 0 for the percentage of its variable cost's increase
\* and, its implied sales being 0, for the percentage of its sales' increase;
\* the analysis fails with ZeroDivisionError when the ratios cover exactly
\* the divisions and the headquarters' variable cost allocated to such a
\* division is 0, its sales after allocation being 0 then.
C13_ZeroGuardsWhenReturned ==
  call.op = "get_allocation_impact_analysis"
    => /\ ret.err = "none"
          => \A n \in NoVariableCost :
               /\ IsZero(ImpactOf(n).before.implied_sales)
               /\ IsZero(ImpactOf(n).impact.variable_increase_pct)
               /\ IsZero(ImpactOf(n).impact.sales_increase_pct)
       /\ (/\ RatiosForDivisions
           /\ \E n \in NoVariableCost : IsZero(hq_variable_allocated(n)))
          => ret.err = "ZeroDivisionError"

\* The analysis has returned for a division without variable cost to which
\* a variable cost has been allocated: the guards have replaced a division
\* by zero.
C13_Guarded ==
  /\ call.op = "get_allocation_impact_analysis"
  /\ ret.err = "none"
  /\ \E n \in NoVariableCost : ~IsZero(ImpactOf(n).impact.variable_increase)

\* C14: the impact analysis never returns when a division's original margin
\* rate is 0; it fails with ZeroDivisionError whenever the ratios cover
\* exactly the divisions.
C14_ZeroMarginRaises ==
  (/\ call.op = "get_allocation_impact_analysis"
   /\ \E n \in Range(dept_names) : IsZero(departments.val[n].margin_rate))
    => /\ ret.err # "none"
       /\ RatiosForDivisions => ret.err = "ZeroDivisionError"

\* The analysis has failed on a division with a margin rate of 0 although
\* calculate_allocated_costs succeeds on the same ratios.
C14_Raised ==
  /\ call.op = "get_allocation_impact_analysis"
  /\ \E n \in Range(dept_names) : IsZero(departments.val[n].margin_rate)
  /\ RatiosForDivisions
  /\ allocation_ratios # InitialRatios(dept_names)
  /\ IsOk(calculate_allocated_costs)
  /\ ret.err = "ZeroDivisionError"

\* The operating profit of a division after allocation.
ProfitBefore(n) == FSub(CostsBefore(n).implied_sales, CostsBefore(n).fixed_cost)

ContributionOf(n) == ret.calculate_operating_profit_contribution.val[n]

ContributionReturned ==
  /\ call.op = "calculate_operating_profit_contribution"
  /\ ret.err = "none"
  /\ AllocatedBefore

\* C15: the profit contribution of a division is its sales increase times
\* its margin rate after allocation; both rates are the contribution over
\* the operating profit when that is positive, over its absolute value when
\* negative, 0 when it is exactly 0; the status is surplus, deficit or
\* break-even by the same sign.
C15_RateAndStatus ==
  ContributionReturned
    => \A n \in Range(dept_names) :
         LET costs == CostsBefore(n)
             data == ContributionOf(n)
             profit == ProfitBefore(n)
             contribution == FMul(data.sales_increase, costs.margin_rate)
         IN  /\ FEq(data.profit_contribution, contribution)
             /\ FEq(data.contribution_rate, data.profit_increase_rate)
             /\ FGt(profit, F0)
                  => /\ data.status = "surplus"
                     /\ FEq(data.contribution_rate, FDiv(contribution, profit))
             /\ FLt(profit, F0)
                  => /\ data.status = "deficit"
                     /\ FEq(data.contribution_rate, FDiv(contribution, FAbs(profit)))
             /\ IsZero(profit)
                  => /\ data.status = "break-even"
                     /\ IsZero(data.contribution_rate)

\* A contribution returned with a division at a profit of exactly 0 that
\* has a contribution, beside a division in deficit or in surplus.
C15_AtZero ==
  /\ ContributionReturned
  /\ \E n \in Range(dept_names) : ContributionOf(n).status # "break-even"
  /\ \E n \in Range(dept_names) :
       /\ ContributionOf(n).status = "break-even"
       /\ ~IsZero(ContributionOf(n).profit_contribution)

\* C16: the sales increase of every division is the target whenever one is
\* given, a target of 0 included, and the headquarters' variable cost
\* allocated to the division only when none is given.
C16_Target ==
  ContributionReturned
    => \A n \in Range(dept_names) :
         IF call.target_sales_increase = Absent
           THEN FEq(ContributionOf(n).sales_increase, CostsBefore(n).hq_variable_allocated)
           ELSE ContributionOf(n).sales_increase = call.target_sales_increase[1]

\* A target of 0 has replaced an allocated variable cost that is not 0.
C16_ZeroTarget ==
  /\ ContributionReturned
  /\ call.target_sales_increase = Present(F0)
  /\ \E n \in Range(dept_names) :
       /\ ~IsZero(CostsBefore(n).hq_variable_allocated)
       /\ IsZero(ContributionOf(n).sales_increase)

ElasticityOf(n) == ret.calculate_sales_profit_elasticity.val[n]

ElasticityReturned ==
  /\ call.op = "calculate_sales_profit_elasticity"
  /\ ret.err = "none"
  /\ AllocatedBefore

\* C17: with the current profit, sales after allocation less fixed cost, and
\* the increased profit, those sales times 1.01 less fixed cost, the profit
\* increase rate is their difference over the current profit when that is
\* positive; when negative, their difference over its absolute value if the
\* increased profit is greater and 0 otherwise; 0 when it is 0; and the
\* elasticity is the rate over 0.01.
C17_Elasticity ==
  ElasticityReturned
    => \A n \in Range(dept_names) :
         LET costs == CostsBefore(n)
             data == ElasticityOf(n)
             current_profit == ProfitBefore(n)
             increased_profit == FSub(FMul(costs.implied_sales, F1_01), costs.fixed_cost)
             gain == FSub(increased_profit, current_profit)
         IN  /\ FGt(current_profit, F0)
                  => FEq(data.profit_increase_rate, FDiv(gain, current_profit))
             /\ (FLt(current_profit, F0) /\ FGt(increased_profit, current_profit))
                  => FEq(data.profit_increase_rate, FDiv(gain, FAbs(current_profit)))
             /\ (FLt(current_profit, F0) /\ ~FGt(increased_profit, current_profit))
                  => IsZero(data.profit_increase_rate)
             /\ IsZero(current_profit) => IsZero(data.profit_increase_rate)
             /\ FEq(data.elasticity, FDiv(data.profit_increase_rate, F0_01))

\* An elasticity returned with a division whose deficit shrinks and a
\* division whose deficit does not, its sales being negative.
C17_Deficit ==
  /\ ElasticityReturned
  /\ \E n \in Range(dept_names) :
       /\ FLt(ProfitBefore(n), F0)
       /\ FGt(ElasticityOf(n).profit_increase_rate, F0)
  /\ \E n \in Range(dept_names) :
       /\ FLt(ProfitBefore(n), F0)
       /\ FLt(CostsBefore(n).implied_sales, F0)
       /\ IsZero(ElasticityOf(n).profit_increase_rate)

\* 1/N for the N divisions; the source writes it 0.2 for its five.
EqualShare == IF Len(dept_names) = 5 THEN Dec(2, 10) ELSE FDiv(F1, FromInt(Len(dept_names)))

\* The engine's ratios are those of its construction, 1/N each, and the
\* session holds 1/N for every division and both kinds.
EqualShares ==
  /\ allocation_ratios = InitialRatios(dept_names)
  /\ fixed_ratios.keys = dept_names
  /\ variable_ratios.keys = dept_names
  /\ \A n \in Range(dept_names) :
       /\ allocation_ratios.val[n] = Pair(EqualShare, EqualShare)
       /\ fixed_ratios.val[n] = EqualShare
       /\ variable_ratios.val[n] = EqualShare

AdjustReturned == call.op = "auto_adjust_ratios" /\ ret.err = "none"

\* The ratios given and returned, in the defined order; their number.
Given == [i \in 1..Len(call.ratios.keys) |-> call.ratios.val[call.ratios.keys[i]]]

Adjusted ==
  [i \in 1..Len(call.ratios.keys) |-> ret.auto_adjust_ratios.val[call.ratios.keys[i]]]

Count == Len(call.ratios.keys)

InUnit(values) == \A i \in 1..Len(values) : ~FLt(values[i], F0) /\ ~FGt(values[i], F1)

\* The difference to absorb; whether there is none to absorb.
Delta == FSub(call.target, FSum(Given))

NothingToAdjust == FLt(FAbs(FSub(FSum(Given), call.target)), F0_001)

\* The last division, visited first, has gained min(delta, 1 - ratio) or lost
\* min(|delta|, ratio); a division is changed only if every division after
\* it is at the bound, 1 when gaining and 0 when losing.
ReverseOrder ==
  /\ ~NothingToAdjust
       => FEq(Adjusted[Count],
              IF FGt(Delta, F0)
                THEN FAdd(Given[Count], FMin(Delta, FSub(F1, Given[Count])))
                ELSE FSub(Given[Count], FMin(FAbs(Delta), Given[Count])))
  /\ \A i \in 1..Count :
       ~FEq(Adjusted[i], Given[i])
         => \A j \in (i + 1)..Count :
              FEq(Adjusted[j], IF FGt(Delta, F0) THEN F1 ELSE F0)

\* A value is the decimal d up to the rounding of double precision.
Rounded(value, d) ==
  FLt(FAbs(FSub(value, d)), FMul(Dec(1, 10^8), Dec(1, 10^7)))

\* C19 as stated: the traversal is in reverse order, every result is in
\* [0,1], and the specification's two examples give {A: 0.5, B: 0.3, C: 0.2}
\* and {A: 0.2, B: 0.2, C: 0.6}.
C19_ReverseOrderExact ==
  AdjustReturned
    => /\ ReverseOrder
       /\ InUnit(Adjusted)
       /\ (call.ratios = ExampleOver /\ call.target = F1)
            => ret.auto_adjust_ratios = Triple(Dec(5, 10), Dec(3, 10), Dec(2, 10))
       /\ (call.ratios = ExampleUnder /\ call.target = F1)
            => ret.auto_adjust_ratios = Triple(Dec(2, 10), Dec(2, 10), Dec(6, 10))

\* C19: for ratios in [0,1] the traversal is in reverse order, a division is
\* changed only if every division after it is at its bound, every result is
\* in [0,1], and the specification's two examples leave A and B as they are
\* and give 0.2 and 0.6 for C up to the rounding of double precision.
C19_ReverseOrderRounded ==
  (AdjustReturned /\ InUnit(Given))
    => /\ ReverseOrder
       /\ InUnit(Adjusted)
       /\ (call.ratios = ExampleOver /\ call.target = F1)
            => /\ Adjusted[1] = Given[1]
               /\ Adjusted[2] = Given[2]
               /\ Rounded(Adjusted[3], Dec(2, 10))
       /\ (call.ratios = ExampleUnder /\ call.target = F1)
            => /\ Adjusted[1] = Given[1]
               /\ Adjusted[2] = Given[2]
               /\ Rounded(Adjusted[3], Dec(6, 10))

\* The last division has been pushed to its bound and the one before it has
\* absorbed the rest.
C19_PassedOn ==
  /\ AdjustReturned
  /\ InUnit(Given)
  /\ ~FEq(Adjusted[3], Given[3])
  /\ ~FEq(Adjusted[2], Given[2])
  /\ ~IsZero(Adjusted[2])
  /\ ~FEq(Adjusted[2], F1)
  /\ FEq(Adjusted[1], Given[1])

\* What the sum of the result may miss the target by: the tolerance at which
\* the traversal stops, and rounding.
Tolerance == FAdd(F0_001, Dec(1, 10^9))

TargetInRange == ~FLt(call.target, F0) /\ ~FGt(call.target, FromInt(Count))

\* C20 as stated: unchanged when the sum is within 0.001 of the target, and
\* otherwise, for ratios in [0,1] and a target from 0 to the number of
\* divisions, a result whose sum equals the target.
C20_SumIsTarget ==
  AdjustReturned
    => /\ NothingToAdjust => ret.auto_adjust_ratios = call.ratios
       /\ (~NothingToAdjust /\ InUnit(Given) /\ TargetInRange)
            => FEq(FSum(Adjusted), call.target)

\* C20: unchanged when the sum is within 0.001 of the target, and otherwise,
\* for ratios in [0,1] and a target from 0 to the number of divisions, a
\* result whose sum is the target up to the remainder at which the traversal
\* stops and to rounding: within 0.001 + 0.000000001 of it.
C20_SumNearTarget ==
  AdjustReturned
    => /\ NothingToAdjust => ret.auto_adjust_ratios = call.ratios
       /\ (~NothingToAdjust /\ InUnit(Given) /\ TargetInRange)
            => FLt(FAbs(FSub(FSum(Adjusted), call.target)), Tolerance)

\* An adjustment whose result does not sum to the target in double precision
\* although the traversal went on until nothing remained.
C20_RoundedOff ==
  /\ AdjustReturned
  /\ ~NothingToAdjust
  /\ InUnit(Given)
  /\ TargetInRange
  /\ call.stop_tolerance = F0
  /\ ret.auto_adjust_ratios # call.ratios
  /\ ~FEq(FSum(Adjusted), call.target)

ReaderReturned == reader.pc = "done" /\ reader.outcome.err = "none"

ReaderResult(n) == reader.outcome.calculate_allocated_costs.val[n]

\* The record of division n computed over the mapping m.
RecordOver(m, n) ==
  allocated_totals(n, calculate_implied_sales(n).val,
                   FMul(headquarters_fixed_cost, m.val[n].fixed),
                   FMul(headquarters_variable_cost, m.val[n].variable)).val

\* The reader's result is the result over the single mapping m.
ResultOver(m) == \A n \in Range(dept_names) : ReaderResult(n) = RecordOver(m, n)

\* C21 as stated: with the writer's calls one at a time and the reader beside
\* it, every result of calculate_allocated_costs is the result over a single
\* mapping that was current at some point during the call.
C21_SingleMapping ==
  ReaderReturned => \E m \in reader.seen : ResultOver(m)

\* C21: the result is the result over a single mapping whenever no update
\* falls into the call; when updates fall into it, the fixed and the
\* variable amounts of every division each come from some mapping that was
\* current during the call, not necessarily from the same one.
C21_EachRatioOfSomeMapping ==
  ReaderReturned
    => /\ Cardinality(reader.seen) = 1 => \E m \in reader.seen : ResultOver(m)
       /\ \A n \in Range(dept_names) :
            /\ \E m \in reader.seen :
                 ReaderResult(n).hq_fixed_allocated =
                   FMul(headquarters_fixed_cost, m.val[n].fixed)
            /\ \E m \in reader.seen :
                 ReaderResult(n).hq_variable_allocated =
                   FMul(headquarters_variable_cost, m.val[n].variable)
            /\ ReaderResult(n) =
                 allocated_totals(n, calculate_implied_sales(n).val,
                                  ReaderResult(n).hq_fixed_allocated,
                                  ReaderResult(n).hq_variable_allocated).val

\* A result that takes the fixed and the variable ratio of one division
\* from two mappings.
C21_Torn ==
  /\ ReaderReturned
  /\ \E n \in Range(dept_names) :
       \A m \in reader.seen :
         \/ ReaderResult(n).hq_fixed_allocated #
              FMul(headquarters_fixed_cost, m.val[n].fixed)
         \/ ReaderResult(n).hq_variable_allocated #
              FMul(headquarters_variable_cost, m.val[n].variable)
PerDivision ==
  {"calculate_allocated_costs", "get_allocation_impact_analysis",
   "calculate_operating_profit_contribution", "calculate_sales_profit_elasticity"}

\* C23: whenever calculate_allocated_costs, get_allocation_impact_analysis,
\* calculate_operating_profit_contribution or calculate_sales_profit_elasticity
\* returns, the mapping returned has the keys of the division reference data,
\* in the same order, whatever the keys of the ratio mapping and their order.
C23_KeysOfDivisions ==
  \A op \in PerDivision :
    (call.op = op /\ ret.err = "none") => ret[op].keys = departments.keys

\* A mapping returned while the ratio mapping holds an extra key or lists the
\* divisions in another order.
C23_OtherKeysInRatios ==
  /\ call.op \in PerDivision
  /\ ret.err = "none"
  /\ allocation_ratios.keys # departments.keys
  /\ Len(allocation_ratios.keys) >= Len(departments.keys)

\* The queries that run calculate_allocated_costs.
OnAllocation ==
  PerDivision \cup {"calculate_break_even_point", "get_summary_data",
                    "get_operating_profit_contribution_summary"}

\* The divisions the ratio mapping has no entry for, by their position.
Omitted == {i \in 1..Len(dept_names) : ~Has(allocation_ratios, dept_names[i])}

FirstOmitted == CHOOSE i \in Omitted : \A j \in Omitted : i <= j

\* No division by zero comes before the lookup of the first missing ratio.
LookupReached ==
  /\ \A i \in 1..(FirstOmitted - 1) : IsOk(allocated_dept(dept_names[i]))
  /\ IsOk(calculate_implied_sales(dept_names[FirstOmitted]))

\* C24 as stated: while the ratio mapping omits a division, every query that
\* runs calculate_allocated_costs fails with a KeyError.
C24_AlwaysKeyError ==
  (call.op \in OnAllocation /\ Omitted # {}) => ret.err = "KeyError"

\* C24: update_allocation_ratios with a mapping that omits a division
\* returns without error and leaves the division without ratios; from then
\* on calculate_allocated_costs and every query that runs it raises and
\* returns nothing, the exception being the KeyError of the first division
\* without ratios (a division that divides by zero before that lookup raises
\* its ZeroDivisionError instead); an update with a complete mapping leaves
\* exactly that mapping in the engine, and no query raises a KeyError for a
\* division any more.
C24_OmittedDivision ==
  /\ [](call.op \in OnAllocation =>
          /\ Omitted # {} =>
               /\ ret.err # "none"
               /\ LookupReached => ret = [err |-> "KeyError",
                                          key |-> dept_names[FirstOmitted]]
               /\ ~LookupReached => ret.err = "ZeroDivisionError"
          /\ Omitted = {} =>
               (ret.err = "KeyError" => ret.key \notin Range(dept_names)))
  /\ [][call'.op = "update_allocation_ratios" =>
          /\ ret'.err = "none"
          /\ \A n \in Range(dept_names) :
               Has(allocation_ratios', n) <=> Has(call'.new_ratios, n)
          /\ (\A n \in Range(dept_names) : Has(call'.new_ratios, n))
               => allocation_ratios' = call'.new_ratios
          /\ UNCHANGED <<departments, headquarters_fixed_cost,
                         headquarters_variable_cost, cost_transfers>>]_vars

\* A query that found a division without ratios.
C24_MissingRatio ==
  /\ call.op \in OnAllocation
  /\ Omitted # {}
  /\ ret.err = "KeyError"

\* The divisions whose part of the allocation raises.
Failing == {n \in Range(dept_names) : ~IsOk(allocated_dept(n))}

\* C25: calculate_break_even_point(d) fails whenever the allocation of some
\* division fails, with the exception calculate_allocated_costs raises in
\* that state (for a missing ratio the KeyError of the division that lacks
\* it), whether d is a division that is computable itself, another division
\* or no division at all.
C25_AllocationFirst ==
  (call.op = "calculate_break_even_point" /\ Failing # {})
    => /\ ret.err \in {"ZeroDivisionError", "KeyError"}
       /\ ret = Out("calculate_allocated_costs", calculate_allocated_costs)
       /\ ret.err = "KeyError" => ret.key \in Failing

\* A break-even point asked for a division that is computable itself, or for
\* no division, while another division's allocation fails.
C25_OtherDivisionFails ==
  /\ call.op = "calculate_break_even_point"
  /\ Failing # {}
  /\ call.dept_name \notin Failing
  /\ ret.err # "none"

AllocationReturned == call.op = "calculate_allocated_costs" /\ ret.err = "none"

CostsOf(n) == ret.calculate_allocated_costs.val[n]

\* The divisions with a margin rate in (0,1), a variable cost above 0 and a
\* share of the headquarters' variable cost that is not negative.
Regular ==
  {n \in Range(dept_names) :
     /\ FGt(departments.val[n].margin_rate, F0)
     /\ FLt(departments.val[n].margin_rate, F1)
     /\ FGt(departments.val[n].variable_cost, F0)
     /\ ~FLt(CostsOf(n).hq_variable_allocated, F0)}

\* No transfer is ever recorded, and every division is reported without.
NoTransfers ==
  /\ cost_transfers = EmptyDict
  /\ AllocationReturned =>
       \A n \in Range(dept_names) :
         IsZero(CostsOf(n).transfer_fixed) /\ IsZero(CostsOf(n).transfer_variable)

\* C26 as stated: no transfers, and the recomputed margin rate of a regular
\* division is at most the original one, equal to it exactly when the
\* division takes none of the headquarters' variable cost.
C26_NeverAbove ==
  /\ NoTransfers
  /\ AllocationReturned =>
       \A n \in Regular :
         /\ ~FGt(CostsOf(n).margin_rate, CostsOf(n).original_margin_rate)
         /\ FEq(CostsOf(n).margin_rate, CostsOf(n).original_margin_rate)
              <=> IsZero(CostsOf(n).hq_variable_allocated)

\* The rounding of the four operations between the margin rate given and the
\* one recomputed: 2^-50.
RateRounding == FMul(FromInt(4), Eps)

\* The decrease of the margin rate, m * h / allocated sales, is above the
\* rounding.
ClearDecrease(n) ==
  FGt(FMul(CostsOf(n).original_margin_rate, CostsOf(n).hq_variable_allocated),
      FMul(FMul(FromInt(2), RateRounding), CostsOf(n).implied_sales))

\* C26: no transfers, and the recomputed margin rate of a regular division
\* is at most the original one up to rounding (2^-50): within the rounding of
\* it when the division takes none of the headquarters' variable cost, and
\* below it when the decrease is above the rounding.
C26_NeverAboveRounded ==
  /\ NoTransfers
  /\ AllocationReturned =>
       \A n \in Regular :
         /\ ~FGt(CostsOf(n).margin_rate,
                 FAdd(CostsOf(n).original_margin_rate, RateRounding))
         /\ IsZero(CostsOf(n).hq_variable_allocated)
              => ~FGt(FAbs(FSub(CostsOf(n).margin_rate,
                                CostsOf(n).original_margin_rate)), RateRounding)
         /\ ClearDecrease(n)
              => FLt(CostsOf(n).margin_rate, CostsOf(n).original_margin_rate)

\* A division that takes none of the headquarters' variable cost and is
\* reported with a margin rate above the one given.
C26_RoundedUp ==
  /\ AllocationReturned
  /\ \E n \in Regular :
       /\ IsZero(CostsOf(n).hq_variable_allocated)
       /\ FGt(CostsOf(n).margin_rate, CostsOf(n).original_margin_rate)

\* A lockout is set and its time has not come; a lockout is set and its time
\* has come.
LockoutRunning == lockout_until # Absent /\ now < lockout_until[1]

LockoutOver == lockout_until # Absent /\ now >= lockout_until[1]

\* The step is a call of op, not a tick of the clock (which leaves the
\* record of the latest call in place).
Called(op) == call'.op = op /\ now' = now

\* login has run in the step: called by a client, or by the login form.
LoginCalled ==
  \/ Called("login")
  \/ Called("main") /\ "login" \in ret'.main.reached

\* The name and the password it was given, and its first result.
GivenName == IF call'.op = "login" THEN call'.username ELSE call'.event.username

GivenPassword == IF call'.op = "login" THEN call'.password ELSE call'.event.password

LoginFailed ==
  IF call'.op = "login" THEN ~ret'.login ELSE ret'.main.ended # "login_rerun"

\* C27: login_attempts stays within 0..5 and lockout_until is set exactly
\* when it is 5.  A login that fails outside a lockout, for an unknown user
\* or a wrong password alike, counts one more, from 0 if a lockout has
\* expired, and the count reaching 5 sets the lockout to 5 minutes from now;
\* a login that succeeds leaves the count at 0 and no lockout.
C27_AttemptsAndLockout ==
  /\ [](/\ login_attempts \in 0..MaxAttempts
        /\ lockout_until # Absent <=> login_attempts = MaxAttempts)
  /\ [][(LoginCalled /\ ~LockoutRunning) =>
          IF LoginFailed
            THEN /\ ~credentials_ok(GivenName, GivenPassword)
                 /\ login_attempts' = (IF LockoutOver THEN 0 ELSE login_attempts) + 1
                 /\ lockout_until' = IF login_attempts' = MaxAttempts
                                       THEN Present(now + LockoutMinutes) ELSE Absent
          ELSE /\ credentials_ok(GivenName, GivenPassword)
               /\ login_attempts' = 0
               /\ lockout_until' = Absent]_vars

\* The fifth failure in a row, for another name than the one before.
C27_FifthFailure ==
  /\ call.op = "login"
  /\ ~ret.login
  /\ call.username # "admin"
  /\ login_attempts = MaxAttempts
  /\ lockout_until = Present(now + LockoutMinutes)

\* C28: a login during a lockout fails, with the right password as with a
\* wrong one, and leaves authenticated, current_user, login_attempts and
\* lockout_until as they are.
C28_LockedOut ==
  [][(LoginCalled /\ LockoutRunning) =>
       /\ LoginFailed
       /\ UNCHANGED <<authenticated, current_user, login_attempts, lockout_until>>]_vars

\* A login with the administrator's name and password refused during a
\* lockout.
C28_RightPasswordRefused ==
  /\ call.op = "login"
  /\ credentials_ok(call.username, call.password)
  /\ ~ret.login
  /\ LockoutRunning
  /\ ~authenticated

\* C29: authenticated holds exactly when current_user is set, and
\* current_user is then a user of the user store; a login that succeeds was
\* given that user's name and password; a login that fails leaves
\* authenticated and current_user as they are; logout leaves authenticated
\* false and current_user unset, and login_attempts and lockout_until as they
\* are.
C29_CurrentUser ==
  /\ [](/\ authenticated <=> current_user # Absent
        /\ current_user # Absent => Has(users, current_user[1].username))
  /\ [][LoginCalled =>
          IF LoginFailed THEN UNCHANGED <<authenticated, current_user>>
          ELSE /\ credentials_ok(GivenName, GivenPassword)
               /\ authenticated'
               /\ current_user' = Present(logged_in_user(GivenName))]_vars
  /\ [][(Called("logout") \/ (Called("main") /\ "logout" \in ret'.main.reached)) =>
          /\ ~authenticated'
          /\ current_user' = Absent
          /\ UNCHANGED <<login_attempts, lockout_until>>]_vars

\* A logout after failed logins: the count is still there.
C29_LoggedOutWithAttempts ==
  /\ call.op = "logout"
  /\ ~authenticated
  /\ current_user = Absent
  /\ login_attempts > 0

\* The parts of the program behind the gate.
Protected ==
  {"dashboard", "update_allocation_ratios", "queries", "profile", "user_management",
   "add_user", "change_password"}

\* A run of main in a session that is not authenticated stays before the
\* gate; the user-management page calls add_user or change_password for an
\* administrator only.
Gated ==
  /\ ~authenticated => ret'.main.reached \cap Protected = {}
  /\ (call'.page = "user_management"
        /\ ret'.main.reached \cap {"add_user", "change_password"} # {})
       => current_user # Absent /\ current_user[1].role = "admin"

\* C30 as stated: whatever the page parameter, a run in a session that is
\* not authenticated ends at the login form or at the 'login required'
\* error.
C30_EndsAtLogin ==
  [][Called("main") =>
       /\ Gated
       /\ ~authenticated =>
            ret'.main.ended \in {"login_form", "login_rerun", "login_required"}]_vars

\* C30: a run in a session that is not authenticated stays before the gate
\* and ends at the login form or at the 'login required' error, or, with the
\* page parameter logout, at the rerun that follows the logout; the
\* user-management page calls add_user or change_password for an
\* administrator only.
C30_Gate ==
  [][Called("main") =>
       /\ Gated
       /\ ~authenticated =>
            IF call'.page = "logout" THEN ret'.main.ended = "logout_rerun"
            ELSE ret'.main.ended \in {"login_form", "login_rerun", "login_required"}]_vars

\* A run that asked for the profile page without a login.
C30_LoginRequired ==
  /\ call.op = "main"
  /\ call.page = "profile"
  /\ ret.main.ended = "login_required"
  /\ ~authenticated

\* What the engine's queries return in a state: the getters' mappings and
\* the allocation.
QueryResults ==
  [get_department_data |-> departments,
   get_allocation_ratios |-> allocation_ratios,
   calculate_allocated_costs |-> Out("calculate_allocated_costs", calculate_allocated_costs)]

\* C22: a change the client makes to a mapping it got from
\* get_department_data or get_allocation_ratios, or to the mapping it passed
\* to update_allocation_ratios (a key added, a key removed, a field of an
\* inner record changed), leaves the result of every later query as it was.
C22_OnlyThroughUpdate ==
  [][client'.does \in {"add_key", "remove_key", "change_field"}
       => QueryResults' = QueryResults]_vars

\* A query that fails for a division whose ratios the client has deleted
\* from the mapping it had passed.
C22_DeletedFromOutside ==
  /\ client.holds = "update_allocation_ratios"
  /\ client.does = "remove_key"
  /\ call.op = "calculate_allocated_costs"
  /\ ret.err = "KeyError"

====
